---------------------------- MODULE Spec2Model ----------------------------
(***************************************************************************)
(* A model of the UTM planner: geofencing.py, pathfinding.py,              *)
(* conflict_detection.py, the request handlers of main.py and the          *)
(* VirtualDrone of drone_simulator.py.                                     *)
(*                                                                         *)
(* Numbers.  The program computes in floats on latitude/longitude degrees. *)
(* The model computes in fixed point on a local tangent plane:             *)
(*   - latitude and longitude are lattice decimetres (the program's        *)
(*     111320 metres to the degree) north and east of the south-west       *)
(*     corner of the operational area; altitude is decimetres;             *)
(*   - haversine_distance is the planar Euclidean distance in lattice      *)
(*     decimetres, Meters turns it into decimetres on the sphere; square   *)
(*     roots are rounded down;                                             *)
(*   - times are centiseconds, speeds are decimetres per second;           *)
(*   - quotients are rounded down.                                         *)
(* One lattice step of get_neighbors is GRID_RESOLUTION in both axes (the  *)
(* program divides the longitude step by cos(lat) for the same effect).    *)
(* The geofences, the operational area and max_iterations are scaled to a  *)
(* lattice of a few cells; every other parameter keeps its value.          *)
(***************************************************************************)
EXTENDS Integers, Naturals, Sequences, FiniteSets, TLC

\* ------------------------------------------------------------------------
\* config.py
\* ------------------------------------------------------------------------
DRONE_MAX_SPEED == 150
DRONE_MIN_SPEED == 30
DRONE_CRUISE_SPEED == 100
DRONE_MAX_ALTITUDE == 1200
DRONE_BATTERY_CAPACITY == 3600
DRONE_POWER_CONSUMPTION == 200
GRID_RESOLUTION == 1000
HORIZONTAL_SEPARATION == 300
VERTICAL_SEPARATION == 150
TIME_RESOLUTION == 500

ALTITUDE_LAYERS == <<300, 500, 700, 900, 1100>>

DIRECTION_ALTITUDE_MAP ==
  [NORTH |-> <<500, 900>>, SOUTH |-> <<500, 900>>,
   EAST |-> <<300, 700, 1100>>, WEST |-> <<300, 700, 1100>>]

\* float('inf'), the cost multiplier of a no-fly zone
inf == 1000000

\* A polygon is a sequence of <<latitude, longitude>> vertices, in the
\* vertex order of config.py (north-west, north-east, south-east, south-west).
NO_FLY_ZONES ==
  << [name |-> "Airport Restricted Airspace",
      polygon |-> << <<1400, 1600>>, <<1400, 2400>>, <<600, 2400>>, <<600, 1600>> >>,
      cost_multiplier |-> inf],
     [name |-> "Military Base",
      polygon |-> << <<3400, 3600>>, <<3400, 4400>>, <<2600, 4400>>, <<2600, 3600>> >>,
      cost_multiplier |-> inf] >>

SENSITIVE_AREAS ==
  << [name |-> "Elementary School Zone",
      polygon |-> << <<3400, 600>>, <<3400, 1400>>, <<2600, 1400>>, <<2600, 600>> >>,
      cost_multiplier |-> 5],
     [name |-> "Hospital Complex",
      polygon |-> << <<400, 2600>>, <<400, 3400>>, <<-400, 3400>>, <<-400, 2600>> >>,
      cost_multiplier |-> 4],
     [name |-> "Residential High Density",
      polygon |-> << <<2400, 2600>>, <<2400, 4400>>, <<1600, 4400>>, <<1600, 2600>> >>,
      cost_multiplier |-> 2] >>

OPERATIONAL_AREA ==
  [min_lat |-> 0, max_lat |-> 3000, min_lon |-> 0, max_lon |-> 4000]

\* ------------------------------------------------------------------------
\* Values
\* ------------------------------------------------------------------------
\* Python's None, for values that are records otherwise.
None == [none |-> TRUE]

Position(latitude, longitude, altitude) ==
  [latitude |-> latitude, longitude |-> longitude, altitude |-> altitude]

Waypoint(position, eta, speed, hdg) ==
  [position |-> position, eta |-> eta, speed |-> speed, heading |-> hdg]

Trajectory(waypoints, total_distance, total_time, estimated_battery_usage) ==
  [waypoints |-> waypoints, total_distance |-> total_distance,
   total_time |-> total_time, estimated_battery_usage |-> estimated_battery_usage]

Min(a, b) == IF a <= b THEN a ELSE b
Max(a, b) == IF a >= b THEN a ELSE b
Abs(a) == IF a >= 0 THEN a ELSE 0 - a

\* a / b rounded down, for b of either sign
FloorDiv(a, b) == IF b > 0 THEN a \div b ELSE (0 - a) \div (0 - b)

RECURSIVE SqrtSearch(_, _, _)
SqrtSearch(n, lo, hi) ==
  IF lo >= hi THEN lo
  ELSE LET mid == (lo + hi + 1) \div 2
       IN IF mid * mid <= n THEN SqrtSearch(n, mid, hi)
          ELSE SqrtSearch(n, lo, mid - 1)

\* math.sqrt, rounded down
sqrt(n) == SqrtSearch(n, 0, Min(n, 46340))

\* ------------------------------------------------------------------------
\* geofencing.py
\* ------------------------------------------------------------------------
RECURSIVE RayCast(_, _, _, _, _, _)
\* The loop of point_in_polygon from edge i on: p1 is the previous vertex,
\* xinters the value left by the last edge that set it.
RayCast(lat, lon, polygon, i, p1, acc) ==
  LET n == Len(polygon) IN
  IF i > n THEN acc.inside
  ELSE
    LET p2 == polygon[(i % n) + 1]
        p1_lat == p1[1]
        p1_lon == p1[2]
        p2_lat == p2[1]
        p2_lon == p2[2]
        reached == /\ lon > Min(p1_lon, p2_lon)
                   /\ lon <= Max(p1_lon, p2_lon)
                   /\ lat <= Max(p1_lat, p2_lat)
        xinters == IF reached /\ p1_lon # p2_lon
                   THEN FloorDiv((lon - p1_lon) * (p2_lat - p1_lat), p2_lon - p1_lon) + p1_lat
                   ELSE acc.xinters
        toggle == reached /\ (p1_lat = p2_lat \/ lat <= xinters)
    IN RayCast(lat, lon, polygon, i + 1, p2,
               [inside |-> IF toggle THEN ~acc.inside ELSE acc.inside,
                xinters |-> xinters])

point_in_polygon(point, polygon) ==
  RayCast(point[1], point[2], polygon, 1, polygon[1], [inside |-> FALSE, xinters |-> 0])

is_in_no_fly_zone(position) ==
  \E z \in 1..Len(NO_FLY_ZONES) :
    point_in_polygon(<<position.latitude, position.longitude>>, NO_FLY_ZONES[z].polygon)

RECURSIVE MaxSensitive(_, _, _)
MaxSensitive(point, k, max_multiplier) ==
  IF k > Len(SENSITIVE_AREAS) THEN max_multiplier
  ELSE MaxSensitive(point, k + 1,
         IF point_in_polygon(point, SENSITIVE_AREAS[k].polygon)
         THEN Max(max_multiplier, SENSITIVE_AREAS[k].cost_multiplier)
         ELSE max_multiplier)

\* a cost that knows the no-fly zones only
get_position_cost_multiplier_without_areas(position) ==
  IF is_in_no_fly_zone(position) THEN inf ELSE 1

get_position_cost_multiplier(position) ==
  LET point == <<position.latitude, position.longitude>> IN
  IF \E z \in 1..Len(NO_FLY_ZONES) : point_in_polygon(point, NO_FLY_ZONES[z].polygon)
  THEN inf
  ELSE MaxSensitive(point, 1, 1)

RECURSIVE ClosestIn(_, _, _, _)
\* min(available_altitudes, key=...): the first element of least distance
ClosestIn(available_altitudes, current_altitude, k, best) ==
  IF k > Len(available_altitudes) THEN best
  ELSE ClosestIn(available_altitudes, current_altitude, k + 1,
         IF Abs(available_altitudes[k] - current_altitude) < Abs(best - current_altitude)
         THEN available_altitudes[k] ELSE best)

\* a lane chosen for the heading as it is given
get_safe_altitude_for_direction_as_given(hdg, current_altitude) ==
  LET direction == IF 315 <= hdg \/ hdg < 45 THEN "NORTH"
                   ELSE IF 45 <= hdg /\ hdg < 135 THEN "EAST"
                   ELSE IF 135 <= hdg /\ hdg < 225 THEN "SOUTH"
                   ELSE "WEST"
      available_altitudes == DIRECTION_ALTITUDE_MAP[direction]
  IN ClosestIn(available_altitudes, current_altitude, 2, available_altitudes[1])

\* heading in whole degrees
get_safe_altitude_for_direction(hdg, current_altitude) ==
  LET h == hdg % 360
      direction == IF 315 <= h \/ h < 45 THEN "NORTH"
                   ELSE IF 45 <= h /\ h < 135 THEN "EAST"
                   ELSE IF 135 <= h /\ h < 225 THEN "SOUTH"
                   ELSE "WEST"
      available_altitudes == IF direction \in DOMAIN DIRECTION_ALTITUDE_MAP
                             THEN DIRECTION_ALTITUDE_MAP[direction]
                             ELSE ALTITUDE_LAYERS
  IN ClosestIn(available_altitudes, current_altitude, 2, available_altitudes[1])

is_within_operational_area(position) ==
  LET bounds == OPERATIONAL_AREA IN
  IF position.latitude < bounds.min_lat \/ position.latitude > bounds.max_lat THEN FALSE
  ELSE IF position.longitude < bounds.min_lon \/ position.longitude > bounds.max_lon THEN FALSE
  ELSE TRUE

\* ------------------------------------------------------------------------
\* pathfinding.py
\* ------------------------------------------------------------------------
\* max_iterations of plan_trajectory, scaled with the lattice
MAX_ITERATIONS == 12

\* g is held in decimetres and h in decimetres per DRONE_MAX_SPEED, so the
\* program's f = g + h (metres plus seconds), which is only ever compared,
\* is held multiplied by DRONE_MAX_SPEED: f = g * (DRONE_MAX_SPEED / 10) + h.
Node4D(lat, lon, alt, time, parent) ==
  [lat |-> lat, lon |-> lon, alt |-> alt, time |-> time, parent |-> parent,
   g |-> 0, h |-> 0, f |-> 0]

\* Node4D.__hash__ / __eq__: the rounded (lat, lon, alt); lattice points and
\* the altitudes of the model are whole multiples of the rounding steps.
NodeKey(node) == <<node.lat, node.lon, node.alt>>

to_position(node) == Position(node.lat, node.lon, node.alt)

\* The lattice is laid out with METERS_PER_DEGREE metres to the degree
\* (get_neighbors), the great circle is measured on a sphere of radius R:
\* a lattice step of GRID_RESOLUTION measures a little less than
\* GRID_RESOLUTION.  Distances are held in lattice decimetres, which keeps
\* the sums and comparisons of the search exact, and Meters converts them
\* where the program puts a distance against a speed, a time or a threshold.
R == 6371000
METERS_PER_DEGREE == 111320

\* R * pi / 180 with pi = 3.1416: the sphere's metres to the degree
SphereMetersPerDegree == ((R \div 1000) * 31416) \div 1800

Meters(d) == (d * SphereMetersPerDegree) \div METERS_PER_DEGREE

haversine_distance(lat1, lon1, lat2, lon2) ==
  sqrt((lat2 - lat1) * (lat2 - lat1) + (lon2 - lon1) * (lon2 - lon1))

distance_3d(lat1, lon1, alt1, lat2, lon2, alt2) ==
  LET horizontal == haversine_distance(lat1, lon1, lat2, lon2)
      vertical == Abs(alt2 - alt1)
  IN sqrt(horizontal * horizontal + vertical * vertical)

\* The bearing in whole degrees, rounded down: exact on the compass
\* directions and the middle of the octant otherwise (the program reads a
\* heading's quadrant).  On the sphere the meridians converge to the north,
\* which puts the bearing of a lattice step to the east and of the
\* north-east and south-east diagonals a little under 90, 45 and 135, and
\* those to the west a little over 270, 225 and 315.
calculate_heading(lat1, lon1, lat2, lon2) ==
  LET y == lat2 - lat1
      x == lon2 - lon1
  IN IF x = 0 THEN (IF y >= 0 THEN 0 ELSE 180)
     ELSE IF y = 0 THEN (IF x > 0 THEN 89 ELSE 270)
     ELSE IF x > 0 /\ y > 0 THEN (IF y > x THEN 22 ELSE IF y = x THEN 44 ELSE 67)
     ELSE IF x > 0 /\ y < 0 THEN (IF x > 0 - y THEN 112 ELSE IF x = 0 - y THEN 134 ELSE 157)
     ELSE IF x < 0 /\ y < 0 THEN (IF y < x THEN 202 ELSE IF y = x THEN 225 ELSE 247)
     ELSE (IF 0 - x > y THEN 292 ELSE IF 0 - x = y THEN 315 ELSE 337)

get_neighbors(node, goal_lat, goal_lon) ==
  LET hdg == calculate_heading(node.lat, node.lon, goal_lat, goal_lon)
      optimal_altitude == get_safe_altitude_for_direction(hdg, node.alt)
      lat_step == GRID_RESOLUTION
      lon_step == GRID_RESOLUTION
      directions == << <<lat_step, 0>>, <<lat_step, lon_step>>, <<0, lon_step>>,
                       <<0 - lat_step, lon_step>>, <<0 - lat_step, 0>>,
                       <<0 - lat_step, 0 - lon_step>>, <<0, 0 - lon_step>>,
                       <<lat_step, 0 - lon_step>> >>
      altitude_options == IF Abs(optimal_altitude - node.alt) > 100
                          THEN <<node.alt, optimal_altitude, (node.alt + optimal_altitude) \div 2>>
                          ELSE <<node.alt>>
      m == Len(altitude_options)
      candidate(k) ==
        LET d == directions[((k - 1) \div m) + 1]
            alt == altitude_options[((k - 1) % m) + 1]
            new_lat == node.lat + d[1]
            new_lon == node.lon + d[2]
            dist == distance_3d(node.lat, node.lon, node.alt, new_lat, new_lon, alt)
            speed == IF Abs(alt - node.alt) > 50
                     THEN (DRONE_CRUISE_SPEED * 8) \div 10
                     ELSE DRONE_CRUISE_SPEED
            time_increment == (Meters(dist) * 100) \div speed
        IN Node4D(new_lat, new_lon, alt, node.time + time_increment, node)
  IN SelectSeq([k \in 1..(Len(directions) * m) |-> candidate(k)],
               LAMBDA nb : is_within_operational_area(Position(nb.lat, nb.lon, nb.alt)))

\* the distance whose quotient by DRONE_MAX_SPEED is the heuristic
heuristic(node, goal) ==
  distance_3d(node.lat, node.lon, node.alt, goal.latitude, goal.longitude, goal.altitude)

RECURSIVE reconstruct_path_goal_first(_)
\* the path as the loop collects it, not reversed
reconstruct_path_goal_first(node) ==
  IF node = None THEN <<>>
  ELSE <<node>> \o reconstruct_path_goal_first(node.parent)

RECURSIVE reconstruct_path(_)
reconstruct_path(node) ==
  IF node = None THEN <<>>
  ELSE Append(reconstruct_path(node.parent), node)

nodes_to_trajectory(nodes) ==
  LET n == Len(nodes)
      leg(i) == Meters(distance_3d(nodes[i].lat, nodes[i].lon, nodes[i].alt,
                                   nodes[i + 1].lat, nodes[i + 1].lon, nodes[i + 1].alt))
      wp(i) ==
        IF i < n
        THEN LET time_diff == nodes[i + 1].time - nodes[i].time
                 speed == IF time_diff > 0 THEN (leg(i) * 100) \div time_diff
                          ELSE DRONE_CRUISE_SPEED
             IN Waypoint(to_position(nodes[i]), nodes[i].time, Min(speed, DRONE_MAX_SPEED),
                         calculate_heading(nodes[i].lat, nodes[i].lon,
                                           nodes[i + 1].lat, nodes[i + 1].lon))
        ELSE Waypoint(to_position(nodes[i]), nodes[i].time, Min(0, DRONE_MAX_SPEED), 0)
      RECURSIVE SumLegs(_)
      SumLegs(i) == IF i >= n THEN 0 ELSE leg(i) + SumLegs(i + 1)
      total_time == nodes[n].time - nodes[1].time
      \* percent, in hundredths
      battery_usage == (total_time * DRONE_POWER_CONSUMPTION * 100) \div DRONE_BATTERY_CAPACITY
  IN Trajectory([i \in 1..n |-> wp(i)], SumLegs(1), total_time, battery_usage)

\* heapq on a sequence whose element at heap position p is heap[p + 1];
\* Node4D.__lt__ compares f.
RECURSIVE siftdown(_, _, _, _)
siftdown(heap, startpos, pos, newitem) ==
  IF pos > startpos
  THEN LET parentpos == (pos - 1) \div 2
           parent == heap[parentpos + 1]
       IN IF newitem.f < parent.f
          THEN siftdown([heap EXCEPT ![pos + 1] = parent], startpos, parentpos, newitem)
          ELSE [heap EXCEPT ![pos + 1] = newitem]
  ELSE [heap EXCEPT ![pos + 1] = newitem]

RECURSIVE siftup(_, _, _, _)
siftup(heap, startpos, pos, newitem) ==
  LET endpos == Len(heap)
      childpos == 2 * pos + 1
  IN IF childpos < endpos
     THEN LET rightpos == childpos + 1
              c == IF rightpos < endpos /\ ~(heap[childpos + 1].f < heap[rightpos + 1].f)
                   THEN rightpos ELSE childpos
          IN siftup([heap EXCEPT ![pos + 1] = heap[c + 1]], startpos, c, newitem)
     ELSE siftdown([heap EXCEPT ![pos + 1] = newitem], startpos, pos, newitem)

heappush(heap, item) ==
  siftdown(Append(heap, item), 0, Len(heap), item)

\* <<the popped item, the heap left>>
heappop(heap) ==
  LET lastelt == heap[Len(heap)]
      rest == SubSeq(heap, 1, Len(heap) - 1)
  IN IF rest # <<>>
     THEN <<rest[1], siftup([rest EXCEPT ![1] = lastelt], 0, 0, lastelt)>>
     ELSE <<lastelt, rest>>

RECURSIVE Expand(_, _, _, _, _, _)
\* the loop over get_neighbors(current, ...) from neighbour k on
Expand(current, neighbors, k, open_set, closed_set, goal) ==
  IF k > Len(neighbors) THEN open_set
  ELSE
    LET neighbor == neighbors[k]
        move_cost == distance_3d(current.lat, current.lon, current.alt,
                                 neighbor.lat, neighbor.lon, neighbor.alt)
        cost_multiplier == get_position_cost_multiplier(to_position(neighbor))
        tentative_g == current.g + move_cost * cost_multiplier
        h == heuristic(neighbor, goal)
        pushed == [neighbor EXCEPT !.g = tentative_g, !.h = h,
                                   !.f = tentative_g * (DRONE_MAX_SPEED \div 10) + h,
                                   !.parent = current]
    IN IF NodeKey(neighbor) \in closed_set
       THEN Expand(current, neighbors, k + 1, open_set, closed_set, goal)
       ELSE IF cost_multiplier = inf
       THEN Expand(current, neighbors, k + 1, open_set, closed_set, goal)
       ELSE Expand(current, neighbors, k + 1, heappush(open_set, pushed), closed_set, goal)

\* a loop that goes round once more
Continues_once_more(open_set, iterations) ==
  open_set # <<>> /\ iterations <= MAX_ITERATIONS

\* while open_set and iterations < max_iterations
Continues(open_set, iterations) ==
  open_set # <<>> /\ iterations < MAX_ITERATIONS

RECURSIVE Search(_, _, _, _, _)
\* the while loop of plan_trajectory; expanded lists the cells whose
\* neighbours were generated, in order; iterations counts the pops; left is
\* the length of open_set when the loop ends; reached is the node popped
\* near the goal
Search(open_set, closed_set, iterations, goal, expanded) ==
  IF ~Continues(open_set, iterations)
  THEN [trajectory |-> None, iterations |-> iterations, expanded |-> expanded,
        left |-> Len(open_set), reached |-> None]
  ELSE
    LET popped == heappop(open_set)
        current == popped[1]
        goal_distance == distance_3d(current.lat, current.lon, current.alt,
                                     goal.latitude, goal.longitude, goal.altitude)
    IN IF 2 * Meters(goal_distance) < GRID_RESOLUTION * 3
       THEN [trajectory |-> nodes_to_trajectory(reconstruct_path(current)),
             iterations |-> iterations + 1, expanded |-> expanded,
             left |-> Len(popped[2]), reached |-> current]
       ELSE Search(Expand(current, get_neighbors(current, goal.latitude, goal.longitude),
                          1, popped[2], closed_set \cup {NodeKey(current)}, goal),
                   closed_set \cup {NodeKey(current)}, iterations + 1, goal,
                   Append(expanded, NodeKey(current)))

plan_search(start, goal, start_time) ==
  LET initial_heading == calculate_heading(start.latitude, start.longitude,
                                           goal.latitude, goal.longitude)
      start_altitude == get_safe_altitude_for_direction(initial_heading, start.altitude)
      node0 == Node4D(start.latitude, start.longitude, start_altitude, start_time, None)
      h0 == heuristic(node0, goal)
      start_node == [node0 EXCEPT !.h = h0, !.f = h0]
  IN Search(heappush(<<>>, start_node), {}, 0, goal, <<>>)

plan_trajectory(start, goal, start_time) == plan_search(start, goal, start_time).trajectory

\* ------------------------------------------------------------------------
\* conflict_detection.py
\* ------------------------------------------------------------------------
\* An exception that leaves the function raising it
Raise(name) == [exception |-> name]
IsException(v) == "exception" \in DOMAIN v

RECURSIVE FindSegment(_, _, _)
\* the first i from k on with waypoints[i].eta <= time <= waypoints[i+1].eta, or 0
FindSegment(waypoints, time, k) ==
  IF k > Len(waypoints) - 1 THEN 0
  ELSE IF waypoints[k].eta <= time /\ time <= waypoints[k + 1].eta THEN k
  ELSE FindSegment(waypoints, time, k + 1)

\* t_ratio * (b - a), with t_ratio = (time - eta1) / (eta2 - eta1), or 0 when eta2 = eta1
Blend(time, eta1, eta2, a, b) ==
  IF eta2 # eta1 THEN ((time - eta1) * (b - a)) \div (eta2 - eta1) ELSE 0

interpolate_position(trajectory, time) ==
  LET waypoints == trajectory.waypoints
      i == FindSegment(waypoints, time, 1)
  IN IF i = 0 THEN None
     ELSE LET w1 == waypoints[i]
              w2 == waypoints[i + 1]
          IN [latitude |-> w1.position.latitude
                           + Blend(time, w1.eta, w2.eta, w1.position.latitude, w2.position.latitude),
              longitude |-> w1.position.longitude
                           + Blend(time, w1.eta, w2.eta, w1.position.longitude, w2.position.longitude),
              altitude |-> w1.position.altitude
                           + Blend(time, w1.eta, w2.eta, w1.position.altitude, w2.position.altitude),
              timestamp |-> time]

assess_severity(horizontal_dist, vertical_dist) ==
  IF 2 * horizontal_dist < HORIZONTAL_SEPARATION THEN "critical"
  ELSE IF 4 * horizontal_dist < HORIZONTAL_SEPARATION * 3 THEN "warning"
  ELSE "minor"

RECURSIVE ConflictScan_second_position(_, _, _, _, _, _, _)
\* a scan that reports the position of the second drone
ConflictScan_second_position(drone_1_id, traj_1, drone_2_id, traj_2, current_time, t_end, ticks) ==
  IF ~(current_time <= t_end) THEN [conflict |-> None, ticks |-> ticks]
  ELSE
    LET pos_1 == interpolate_position(traj_1, current_time)
        pos_2 == interpolate_position(traj_2, current_time)
        horizontal_dist == Meters(haversine_distance(pos_1.latitude, pos_1.longitude,
                                                     pos_2.latitude, pos_2.longitude))
        vertical_dist == Abs(pos_1.altitude - pos_2.altitude)
    IN IF /\ pos_1 # None
          /\ pos_2 # None
          /\ horizontal_dist < HORIZONTAL_SEPARATION
          /\ vertical_dist < VERTICAL_SEPARATION
       THEN [conflict |-> [drone_1_id |-> drone_1_id,
                           drone_2_id |-> drone_2_id,
                           conflict_position |-> pos_2,
                           conflict_time |-> current_time,
                           severity |-> assess_severity(horizontal_dist, vertical_dist),
                           resolution_action |-> None],
             ticks |-> ticks + 1]
       ELSE ConflictScan_second_position(drone_1_id, traj_1, drone_2_id, traj_2,
                                         current_time + TIME_RESOLUTION, t_end, ticks + 1)

RECURSIVE ConflictScan(_, _, _, _, _, _, _)
\* the while loop of check_trajectory_conflict from current_time on; ticks
\* counts the passes of the loop so far.  conflict_id (a uuid) is left out.
ConflictScan(drone_1_id, traj_1, drone_2_id, traj_2, current_time, t_end, ticks) ==
  IF ~(current_time <= t_end) THEN [conflict |-> None, ticks |-> ticks]
  ELSE
    LET pos_1 == interpolate_position(traj_1, current_time)
        pos_2 == interpolate_position(traj_2, current_time)
        horizontal_dist == Meters(haversine_distance(pos_1.latitude, pos_1.longitude,
                                                     pos_2.latitude, pos_2.longitude))
        vertical_dist == Abs(pos_1.altitude - pos_2.altitude)
    IN IF /\ pos_1 # None
          /\ pos_2 # None
          /\ horizontal_dist < HORIZONTAL_SEPARATION
          /\ vertical_dist < VERTICAL_SEPARATION
       THEN [conflict |-> [drone_1_id |-> drone_1_id,
                           drone_2_id |-> drone_2_id,
                           conflict_position |-> pos_1,
                           conflict_time |-> current_time,
                           severity |-> assess_severity(horizontal_dist, vertical_dist),
                           resolution_action |-> None],
             ticks |-> ticks + 1]
       ELSE ConflictScan(drone_1_id, traj_1, drone_2_id, traj_2,
                         current_time + TIME_RESOLUTION, t_end, ticks + 1)

conflict_scan(drone_1_id, traj_1, drone_2_id, traj_2) ==
  LET t_start == Max(traj_1.waypoints[1].eta, traj_2.waypoints[1].eta)
      t_end == Min(traj_1.waypoints[Len(traj_1.waypoints)].eta,
                   traj_2.waypoints[Len(traj_2.waypoints)].eta)
  IN IF t_start >= t_end THEN [conflict |-> None, ticks |-> 0]
     ELSE ConflictScan(drone_1_id, traj_1, drone_2_id, traj_2, t_start, t_end, 0)

check_trajectory_conflict(drone_1_id, traj_1, drone_2_id, traj_2) ==
  conflict_scan(drone_1_id, traj_1, drone_2_id, traj_2).conflict

trajectories_conflict(traj_1, traj_2) ==
  check_trajectory_conflict("test_1", traj_1, "test_2", traj_2) # None

RECURSIVE AdjustLoop(_, _, _, _)
\* the loop of adjust_speed from waypoint i on (i counted from 1)
AdjustLoop(waypoints, conflict, i, new_waypoints) ==
  IF i > Len(waypoints) THEN new_waypoints
  ELSE
    LET waypoint == waypoints[i]
        time_shift == TIME_RESOLUTION * 3
        prev_wp == new_waypoints[i - 1]
        distance == Meters(distance_3d(prev_wp.position.latitude, prev_wp.position.longitude,
                                       prev_wp.position.altitude,
                                       waypoint.position.latitude, waypoint.position.longitude,
                                       waypoint.position.altitude))
    IN IF waypoint.eta < conflict.conflict_time
       THEN LET new_speed == Max((waypoint.speed * 7) \div 10, DRONE_MIN_SPEED)
                new_eta == IF i > 1 THEN prev_wp.eta + (distance * 100) \div new_speed
                           ELSE waypoint.eta
            IN AdjustLoop(waypoints, conflict, i + 1,
                 Append(new_waypoints,
                        Waypoint(waypoint.position, new_eta, new_speed, waypoint.heading)))
       ELSE LET new_eta == IF i > 1 THEN prev_wp.eta + (distance * 100) \div DRONE_CRUISE_SPEED
                           ELSE waypoint.eta + time_shift
            IN AdjustLoop(waypoints, conflict, i + 1,
                 Append(new_waypoints,
                        Waypoint(waypoint.position, new_eta, DRONE_CRUISE_SPEED, waypoint.heading)))

\* a speed adjustment that gives the new times and leaves the speeds
adjust_speed_keeping_speeds(trajectory, conflict) ==
  LET adjusted == AdjustLoop(trajectory.waypoints, conflict, 1, <<>>)
      new_waypoints == [i \in 1..Len(adjusted) |->
                          [adjusted[i] EXCEPT !.speed = trajectory.waypoints[i].speed]]
      total_time == new_waypoints[Len(new_waypoints)].eta - new_waypoints[1].eta
      battery_usage == (total_time * DRONE_POWER_CONSUMPTION * 100) \div DRONE_BATTERY_CAPACITY
  IN Trajectory(new_waypoints, trajectory.total_distance, total_time, battery_usage)

adjust_speed(trajectory, conflict) ==
  LET new_waypoints == AdjustLoop(trajectory.waypoints, conflict, 1, <<>>)
      total_time == new_waypoints[Len(new_waypoints)].eta - new_waypoints[1].eta
      battery_usage == (total_time * DRONE_POWER_CONSUMPTION * 100) \div DRONE_BATTERY_CAPACITY
  IN Trajectory(new_waypoints, trajectory.total_distance, total_time, battery_usage)

\* The body of the loop calls Position, a name conflict_detection.py never
\* imports (line 10 imports Trajectory, Waypoint, Position4D, ConflictAlert):
\* the first pass raises NameError.
adjust_altitude(trajectory, conflict) ==
  IF Len(trajectory.waypoints) > 0
  THEN Raise("NameError")
  ELSE Trajectory(<<>>, trajectory.total_distance, trajectory.total_time,
                  trajectory.estimated_battery_usage)

\* lines 188-194: the altitude-shifted trajectory, if it is clean, and
\* replan_required otherwise; the exception of adjust_altitude goes through
ResolveByAltitude(traj_1, traj_2, modified_traj) ==
  IF IsException(modified_traj) THEN modified_traj
  ELSE IF modified_traj # None /\ ~trajectories_conflict(modified_traj, traj_2)
  THEN [trajectory |-> modified_traj, method |-> "altitude_change"]
  ELSE [trajectory |-> traj_1, method |-> "replan_required"]

\* a first step that returns the speed-adjusted trajectory unchecked
ResolveBySpeed_unchecked(conflict, traj_1, traj_2, modified_traj) ==
  [trajectory |-> modified_traj, method |-> "speed_adjustment"]

\* lines 183-186: the speed-adjusted trajectory, if it is clean
ResolveBySpeed(conflict, traj_1, traj_2, modified_traj) ==
  IF modified_traj # None /\ ~trajectories_conflict(modified_traj, traj_2)
  THEN [trajectory |-> modified_traj, method |-> "speed_adjustment"]
  ELSE ResolveByAltitude(traj_1, traj_2, adjust_altitude(traj_1, conflict))

\* [trajectory, method], or the exception that left the function
resolve_conflict(conflict, traj_1, traj_2) ==
  ResolveBySpeed(conflict, traj_1, traj_2, adjust_speed(traj_1, conflict))

\* ------------------------------------------------------------------------
\* drone_simulator.py: VirtualDrone
\* ------------------------------------------------------------------------
TELEMETRY_UPDATE_RATE == 2

\* cos of the latitude of the operational area, in thousandths
\* (math.cos(math.radians(self.position.latitude)))
COS_LATITUDE == 791

\* 1.0 / config.TELEMETRY_UPDATE_RATE, the dt of simulation_loop
update_interval == 100 \div TELEMETRY_UPDATE_RATE

\* battery_level is held in the unit that makes the consumption of one
\* update_interval a whole number: this many units to the percent
Percent == (TELEMETRY_UPDATE_RATE * DRONE_BATTERY_CAPACITY * 36) \div 100

\* a / b rounded to the nearest, for b > 0
RoundDiv(a, b) == (2 * a + b) \div (2 * b)

\* VirtualDrone.__init__ (mission_start_time, which nothing reads, is left out)
VirtualDrone(drone_id, initial_position) ==
  [drone_id |-> drone_id, position |-> initial_position, velocity |-> <<0, 0, 0>>,
   battery_level |-> 100 * Percent, status |-> "idle", trajectory |-> None,
   current_waypoint_index |-> 0]

\* The direction to the target and its length.  lat_diff and lon_diff are
\* degrees and alt_diff is metres: with a lattice decimetre 1/(10 *
\* METERS_PER_DEGREE) of a degree, the three are here in that unit, the
\* longitude divided by the cosine as the degrees of the program are.  Next
\* to an altitude difference the horizontal terms change the length by less
\* than 2 in 1000, and the length is that of the altitude term.
Direction(self, target_pos) ==
  LET lat_diff == target_pos.latitude - self.position.latitude
      lon_diff == RoundDiv((target_pos.longitude - self.position.longitude) * 1000,
                           COS_LATITUDE)
      alt_diff == target_pos.altitude - self.position.altitude
  IN [lat_diff |-> lat_diff, lon_diff |-> lon_diff, alt_diff |-> alt_diff,
      total_diff |-> IF alt_diff # 0 THEN Abs(alt_diff) * METERS_PER_DEGREE
                     ELSE sqrt(lat_diff * lat_diff + lon_diff * lon_diff)]

\* speed * component / total_diff: the component of a movement or a velocity
Along(direction, component, speed) ==
  IF direction.total_diff = 0 THEN 0
  ELSE IF component = "alt_diff"
       THEN IF direction.alt_diff > 0 THEN speed
            ELSE IF direction.alt_diff < 0 THEN 0 - speed ELSE 0
       ELSE RoundDiv(speed * direction[component], direction.total_diff)

\* the battery a flight of dt takes, climbing or not
BatteryConsumed(alt_diff, dt) ==
  LET power_consumption == IF alt_diff > 0 THEN (DRONE_POWER_CONSUMPTION * 3) \div 2
                           ELSE DRONE_POWER_CONSUMPTION
  IN (power_consumption * dt * Percent) \div (100 * DRONE_BATTERY_CAPACITY * 36)

\* update_physics from "Calculate direction to target" on: the drone moves
\* towards the waypoint at the waypoint's speed, its battery goes down, and
\* under 10 percent it is in emergency
Fly(self, direction, target_speed, dt, battery_level) ==
  [self EXCEPT
     !.position = Position(
        self.position.latitude + Along(direction, "lat_diff", RoundDiv(target_speed * dt, 100)),
        self.position.longitude + Along(direction, "lon_diff", RoundDiv(target_speed * dt, 100)),
        self.position.altitude + Along(direction, "alt_diff", RoundDiv(target_speed * dt, 100))),
     !.velocity = << Along(direction, "lat_diff", target_speed),
                     Along(direction, "lon_diff", target_speed),
                     Along(direction, "alt_diff", target_speed) >>,
     !.battery_level = battery_level,
     !.status = IF battery_level < 10 * Percent THEN "emergency" ELSE self.status]

\* update_physics from "Check if reached waypoint" on
Approach(self, current_waypoint, dt, reached) ==
  IF reached
  THEN IF self.current_waypoint_index + 1 >= Len(self.trajectory.waypoints)
       THEN [self EXCEPT !.current_waypoint_index = @ + 1,
                         !.status = "at_delivery", !.velocity = <<0, 0, 0>>]
       ELSE [self EXCEPT !.current_waypoint_index = @ + 1]
  ELSE Fly(self, Direction(self, current_waypoint.position), current_waypoint.speed, dt,
           Max(0, self.battery_level
                    - BatteryConsumed(current_waypoint.position.altitude
                                        - self.position.altitude, dt)))

\* VirtualDrone.update_physics: the drone after the call.
\* current_waypoint_index counts from 0.
update_physics(self, dt) ==
  IF self.status = "idle" \/ self.trajectory = None
  THEN self
  ELSE IF self.current_waypoint_index >= Len(self.trajectory.waypoints)
  THEN [self EXCEPT !.status = "at_delivery", !.velocity = <<0, 0, 0>>]
  ELSE Approach(self, self.trajectory.waypoints[self.current_waypoint_index + 1], dt,
                Meters(distance_3d(
                  self.position.latitude, self.position.longitude, self.position.altitude,
                  self.trajectory.waypoints[self.current_waypoint_index + 1].position.latitude,
                  self.trajectory.waypoints[self.current_waypoint_index + 1].position.longitude,
                  self.trajectory.waypoints[self.current_waypoint_index + 1].position.altitude))
                  < 50)

\* VirtualDrone.assign_trajectory
assign_trajectory(self, trajectory) ==
  [self EXCEPT !.trajectory = trajectory, !.current_waypoint_index = 0,
               !.status = "en_route_pickup"]

\* ------------------------------------------------------------------------
\* Inputs of the model
\* ------------------------------------------------------------------------
MaxMissions == 3
MaxConflicts == 2
MaxClock == 1
MaxConnections == 1

DroneIds == {"drone_001", "drone_002", "drone_003"}
NoDrone == "None"

\* where each drone registers, and the one other place its telemetry reports
Home ==
  [d \in DroneIds |->
     CASE d = "drone_001" -> Position(0, 0, 500)
       [] d = "drone_002" -> Position(2000, 0, 500)
       [] OTHER -> Position(0, 1000, 300)]

Away == Position(1000, 1000, 500)

\* ground positions of pickups and deliveries
Ground(lat, lon) == Position(lat, lon, 0)

\* two requests that can be served, one whose pickup is out of the planner's
\* reach from two of the homes and whose delivery is out of reach of the
\* pickup, one whose pickup is inside the airport polygon, one whose
\* delivery is outside the operational area
Requests ==
  { [pickup |-> Ground(2000, 2000), delivery |-> Ground(0, 0)],
    [pickup |-> Ground(1000, 0), delivery |-> Ground(0, 1000)],
    [pickup |-> Ground(2000, 4000), delivery |-> Ground(0, 0)],
    [pickup |-> Ground(1000, 2000), delivery |-> Ground(0, 0)],
    [pickup |-> Ground(0, 0), delivery |-> Ground(4000, 0)] }

Handlers == {"h1", "h2"}
HandlerBefore(g, h) == g = "h1" /\ h = "h2"

\* ------------------------------------------------------------------------
\* main.py: state
\* ------------------------------------------------------------------------
VARIABLES
  active_drones,     \* dict drone_id -> Telemetry, as the sequence of its values in insertion order
  active_missions,   \* dict mission_id -> Mission, likewise
  flight_plans,      \* dict drone_id -> Trajectory, as a sequence of [drone_id, trajectory]
  system_stats,      \* the counters
  connections,       \* len(manager.active_connections)
  clock,             \* time.time(), in TIME_RESOLUTION steps
  handlers,          \* per request handler of create_delivery_request: where it is, its locals
  drone,             \* a VirtualDrone of the fleet simulator
  last               \* the last call and what it returned (history)

vars == <<active_drones, active_missions, flight_plans, system_stats,
          connections, clock, handlers, drone, last>>

tables == <<active_drones, active_missions, flight_plans, system_stats>>

\* dict helpers: the position of a key, or 0
RECURSIVE IndexOf(_, _, _, _)
IndexOf(seq, field, key, k) ==
  IF k > Len(seq) THEN 0
  ELSE IF seq[k][field] = key THEN k
  ELSE IndexOf(seq, field, key, k + 1)

\* d[key] = value: in place when the key is there, at the end otherwise
\* a table that moves an overwritten key to the end
DictSet_moving_to_end(seq, field, value) ==
  Append(SelectSeq(seq, LAMBDA e : e[field] # value[field]), value)

DictSet(seq, field, value) ==
  LET i == IndexOf(seq, field, value[field], 1)
  IN IF i = 0 THEN Append(seq, value) ELSE [seq EXCEPT ![i] = value]

PlanOf(plans, drone_id) == plans[IndexOf(plans, "drone_id", drone_id, 1)].trajectory

\* plan_trajectory reads start_time only to stamp the waypoints: the plans
\* from time 0 are computed once and shifted.
PlanStarts == {Home[d] : d \in DroneIds} \cup {Away} \cup {r.pickup : r \in Requests}
PlanGoals == {r.pickup : r \in Requests} \cup {r.delivery : r \in Requests}

PlanMemo == [s \in PlanStarts, g \in PlanGoals |-> plan_trajectory(s, g, 0)]

Shifted(trajectory, start_time) ==
  IF trajectory = None THEN None
  ELSE [trajectory EXCEPT
          !.waypoints = [i \in 1..Len(trajectory.waypoints) |->
                           [trajectory.waypoints[i] EXCEPT !.eta = @ + start_time]]]

PlanAt(start, goal, start_time) ==
  IF <<start, goal>> \in DOMAIN PlanMemo
  THEN Shifted(PlanMemo[start, goal], start_time)
  ELSE plan_trajectory(start, goal, start_time)

\* ------------------------------------------------------------------------
\* main.py: create_delivery_request, in pieces
\* ------------------------------------------------------------------------
HTTPException(status_code, detail) == [status_code |-> status_code, detail |-> detail]

\* an Optional[float] that is None
NoTime == 0 - 1

\* a validation without the no-fly test of the pickup
ValidationError_pickup_zone_unchecked(request) ==
  IF ~is_within_operational_area(request.pickup)
  THEN "Pickup location outside operational area"
  ELSE IF ~is_within_operational_area(request.delivery)
  THEN "Delivery location outside operational area"
  ELSE IF is_in_no_fly_zone(request.delivery)
  THEN "Delivery location is in a no-fly zone"
  ELSE ""

\* the four checks at the head of the handler; "" when all pass
ValidationError(request) ==
  IF ~is_within_operational_area(request.pickup)
  THEN "Pickup location outside operational area"
  ELSE IF ~is_within_operational_area(request.delivery)
  THEN "Delivery location outside operational area"
  ELSE IF is_in_no_fly_zone(request.pickup)
  THEN "Pickup location is in a no-fly zone"
  ELSE IF is_in_no_fly_zone(request.delivery)
  THEN "Delivery location is in a no-fly zone"
  ELSE ""

Mission(mission_id, request, created_at) ==
  [mission_id |-> mission_id, drone_id |-> NoDrone,
   pickup_location |-> request.pickup, delivery_location |-> request.delivery,
   created_at |-> created_at, assigned_at |-> NoTime, completed_at |-> NoTime,
   status |-> "idle", trajectory |-> None]

\* uuid4: an identifier no mission in the table or in a running handler has
UsedMissionIds ==
  {active_missions[i].mission_id : i \in 1..Len(active_missions)}
    \cup {handlers[h].mission.mission_id :
            h \in {g \in Handlers : handlers[g].pc = "await_broadcast"}}

NewMissionId == CHOOSE n \in 1..(Cardinality(UsedMissionIds) + 1) : n \notin UsedMissionIds

\* the first drone of the table, in insertion order, whose status is idle
RECURSIVE FirstIdle(_, _)
FirstIdle(drones, k) ==
  IF k > Len(drones) THEN NoDrone
  ELSE IF drones[k].status = "idle" THEN drones[k].drone_id
  ELSE FirstIdle(drones, k + 1)

\* a concatenation that goes on with the first leg when the second is missing
CombineTrajectories_without_delivery(trajectory_to_pickup, trajectory_to_delivery) ==
  IF trajectory_to_delivery = None
  THEN [error |-> "", planner_calls |-> 2,
        planner_results |-> <<trajectory_to_pickup, None>>,
        trajectory |-> trajectory_to_pickup]
  ELSE [error |-> "", planner_calls |-> 2,
        planner_results |-> <<trajectory_to_pickup, trajectory_to_delivery>>,
        trajectory |->
          Trajectory(trajectory_to_pickup.waypoints \o trajectory_to_delivery.waypoints,
                     trajectory_to_pickup.total_distance
                       + trajectory_to_delivery.total_distance,
                     trajectory_to_delivery.waypoints[Len(trajectory_to_delivery.waypoints)].eta
                       - trajectory_to_pickup.waypoints[1].eta,
                     trajectory_to_pickup.estimated_battery_usage
                       + trajectory_to_delivery.estimated_battery_usage)]

\* lines 214-232: the concatenation of the two planned trajectories, or the
\* error of line 212; the record says how many planner calls were made
CombineTrajectories(trajectory_to_pickup, trajectory_to_delivery) ==
  IF trajectory_to_delivery = None
  THEN [error |-> "Could not plan path to delivery location", planner_calls |-> 2,
        planner_results |-> <<trajectory_to_pickup, None>>]
  ELSE [error |-> "", planner_calls |-> 2,
        planner_results |-> <<trajectory_to_pickup, trajectory_to_delivery>>,
        trajectory |->
          Trajectory(trajectory_to_pickup.waypoints \o trajectory_to_delivery.waypoints,
                     trajectory_to_pickup.total_distance
                       + trajectory_to_delivery.total_distance,
                     trajectory_to_delivery.waypoints[Len(trajectory_to_delivery.waypoints)].eta
                       - trajectory_to_pickup.waypoints[1].eta,
                     trajectory_to_pickup.estimated_battery_usage
                       + trajectory_to_delivery.estimated_battery_usage)]

\* a second planner call that starts 30 s before the arrival at the pickup
PlanDelivery_leaving_early(request, trajectory_to_pickup) ==
  IF trajectory_to_pickup = None
  THEN [error |-> "Could not plan path to pickup location", planner_calls |-> 1,
        planner_results |-> <<None>>]
  ELSE CombineTrajectories(
         trajectory_to_pickup,
         PlanAt(request.pickup, request.delivery,
                trajectory_to_pickup.waypoints[Len(trajectory_to_pickup.waypoints)].eta - 3000))

\* lines 202-212: the error of line 203, or the second planner call, 30 s
\* after the arrival at the pickup
PlanDelivery(request, trajectory_to_pickup) ==
  IF trajectory_to_pickup = None
  THEN [error |-> "Could not plan path to pickup location", planner_calls |-> 1,
        planner_results |-> <<None>>]
  ELSE CombineTrajectories(
         trajectory_to_pickup,
         PlanAt(request.pickup, request.delivery,
                trajectory_to_pickup.waypoints[Len(trajectory_to_pickup.waypoints)].eta + 3000))

\* lines 194-232: the two planner calls and what becomes of their results
PlanMission(current_position, request, start_time) ==
  PlanDelivery(request, PlanAt(current_position, request.pickup, start_time))

\* a detection that passes over the first of the other plans
detect_calls_first_skipped(new_mission, plans) ==
  LET others == SelectSeq(plans, LAMBDA e : e.drone_id # new_mission.drone_id)
  IN [i \in 1..(Len(others) - 1) |->
        [drone_1_id |-> new_mission.drone_id, traj_1 |-> new_mission.trajectory,
         drone_2_id |-> others[i + 1].drone_id, traj_2 |-> others[i + 1].trajectory]]

\* the arguments of the check_trajectory_conflict calls of
\* detect_mission_conflicts, in the iteration order of flight_plans
detect_calls(new_mission, plans) ==
  LET others == SelectSeq(plans, LAMBDA e : e.drone_id # new_mission.drone_id)
  IN [i \in 1..Len(others) |->
        [drone_1_id |-> new_mission.drone_id, traj_1 |-> new_mission.trajectory,
         drone_2_id |-> others[i].drone_id, traj_2 |-> others[i].trajectory]]

detect_mission_conflicts(new_mission, plans) ==
  LET calls == detect_calls(new_mission, plans)
      found == [i \in 1..Len(calls) |->
                  check_trajectory_conflict(calls[i].drone_1_id, calls[i].traj_1,
                                            calls[i].drone_2_id, calls[i].traj_2)]
  IN SelectSeq(found, LAMBDA c : c # None)

\* the resolution loop from conflict number local.k on, up to its next
\* suspension: the broadcast gives the event loop to other handlers only
\* when a client is connected
RECURSIVE ResolveLoop(_, _, _, _)
\* lines 244-253: what the loop does with the resolver's answer
Resolved(local, stats, plans, clients, resolved) ==
  IF IsException(resolved)
  THEN [outcome |-> "raised", local |-> local, stats |-> stats]
  ELSE IF clients > 0
  THEN [outcome |-> "suspended",
        local |-> [local EXCEPT !.mission.trajectory = resolved.trajectory,
                                !.k = @ + 1,
                                !.methods = Append(@, resolved.method)],
        stats |-> [stats EXCEPT !.conflicts_detected = @ + 1,
                                !.conflicts_resolved = @ + 1]]
  ELSE ResolveLoop([local EXCEPT !.mission.trajectory = resolved.trajectory,
                                 !.k = @ + 1,
                                 !.methods = Append(@, resolved.method)],
                   [stats EXCEPT !.conflicts_detected = @ + 1,
                                 !.conflicts_resolved = @ + 1],
                   plans, clients)

ResolveLoop(local, stats, plans, clients) ==
  IF local.k > Len(local.conflicts)
  THEN [outcome |-> "done", local |-> local, stats |-> stats]
  ELSE Resolved(local, stats, plans, clients,
                resolve_conflict(local.conflicts[local.k], local.mission.trajectory,
                                 PlanOf(plans, local.conflicts[local.k].drone_2_id)))

\* ------------------------------------------------------------------------
\* main.py: the handlers as actions
\* ------------------------------------------------------------------------
TickLength == 2 * TIME_RESOLUTION

\* time.time()
Now == clock * TickLength

Idle == [pc |-> "idle"]

Suspended == {h \in Handlers : handlers[h].pc = "await_broadcast"}

Telemetry(drone_id, position, battery_level, status) ==
  [drone_id |-> drone_id, position |-> position, velocity |-> <<0, 0, 0>>,
   battery_level |-> battery_level, status |-> status]

\* the simulator's drone as it is made, on the ground at home
Parked == drone = VirtualDrone("drone_001", Home["drone_001"])

Init ==
  /\ active_drones = <<>>
  /\ active_missions = <<>>
  /\ flight_plans = <<>>
  /\ system_stats = [total_missions |-> 0, completed_missions |-> 0,
                     conflicts_detected |-> 0, conflicts_resolved |-> 0,
                     active_drones |-> 0]
  /\ connections = 0
  /\ clock = 0
  /\ handlers = [h \in Handlers |-> Idle]
  /\ Parked
  /\ last = [op |-> "none"]

\* a commit that does not count the mission
Commit_uncounted(h, local, stats) ==
  LET mission == local.mission
      i == IndexOf(active_drones, "drone_id", local.available_drone, 1)
  IN /\ active_missions' = DictSet(active_missions, "mission_id", mission)
     /\ flight_plans' = DictSet(flight_plans, "drone_id",
                                [drone_id |-> local.available_drone,
                                 trajectory |-> mission.trajectory])
     /\ system_stats' = stats
     /\ active_drones' = [active_drones EXCEPT ![i].status = "assigned"]
     /\ handlers' = [handlers EXCEPT ![h] = Idle]
     /\ last' = [op |-> "create_delivery_request",
                 planner_calls |-> 2,
                 planner_results |-> local.planner_results,
                 adm_plans |-> local.adm_plans,
                 calls |-> local.calls,
                 planned |-> local.planned,
                 methods |-> local.methods,
                 response |-> [status_code |-> 200,
                               mission_id |-> mission.mission_id,
                               drone_id |-> local.available_drone,
                               status |-> "assigned",
                               trajectory |-> mission.trajectory,
                               conflicts_detected |-> Len(local.conflicts)]]
     /\ UNCHANGED <<connections, clock, drone>>

\* lines 255-275, after the resolution loop has run out of conflicts
Commit(h, local, stats) ==
  LET mission == local.mission
      i == IndexOf(active_drones, "drone_id", local.available_drone, 1)
  IN /\ active_missions' = DictSet(active_missions, "mission_id", mission)
     /\ flight_plans' = DictSet(flight_plans, "drone_id",
                                [drone_id |-> local.available_drone,
                                 trajectory |-> mission.trajectory])
     /\ system_stats' = [stats EXCEPT !.total_missions = @ + 1]
     /\ active_drones' = [active_drones EXCEPT ![i].status = "assigned"]
     /\ handlers' = [handlers EXCEPT ![h] = Idle]
     /\ last' = [op |-> "create_delivery_request",
                 planner_calls |-> 2,
                 planner_results |-> local.planner_results,
                 adm_plans |-> local.adm_plans,
                 calls |-> local.calls,
                 planned |-> local.planned,
                 methods |-> local.methods,
                 response |-> [status_code |-> 200,
                               mission_id |-> mission.mission_id,
                               drone_id |-> local.available_drone,
                               status |-> "assigned",
                               trajectory |-> mission.trajectory,
                               conflicts_detected |-> Len(local.conflicts)]]
     /\ UNCHANGED <<connections, clock, drone>>

\* what becomes of the handler when the resolution loop stops
Finish(h, run) ==
  CASE run.outcome = "raised" ->
         \* the exception leaves the handler: the counters of the
         \* conflicts already resolved stay, nothing else is written
         /\ system_stats' = run.stats
         /\ handlers' = [handlers EXCEPT ![h] = Idle]
         /\ last' = [op |-> "create_delivery_request",
                     planner_calls |-> 2,
                     methods |-> run.local.methods,
                     response |-> HTTPException(500, "Internal Server Error")]
         /\ UNCHANGED <<active_drones, active_missions, flight_plans, connections, clock, drone>>
    [] run.outcome = "suspended" ->
         /\ system_stats' = run.stats
         /\ handlers' = [handlers EXCEPT ![h] = run.local]
         /\ UNCHANGED <<active_drones, active_missions, flight_plans,
                        connections, clock, drone, last>>
    [] OTHER -> Commit(h, run.local, run.stats)

\* lines 237-253 from the handler's position on, then the commit
Continue(h, local) ==
  Finish(h, ResolveLoop(local, system_stats, flight_plans, connections))

\* lines 188-235: the assignment, the planner's answer and the detection
Assign(h, mission, available_drone, plan) ==
  IF plan.error # ""
  THEN /\ last' = [op |-> "create_delivery_request",
                   planner_calls |-> plan.planner_calls,
                   planner_results |-> plan.planner_results,
                   response |-> HTTPException(500, plan.error)]
       /\ UNCHANGED <<tables, connections, clock, drone, handlers>>
  ELSE Continue(h, [pc |-> "await_broadcast",
                    mission |-> [mission EXCEPT !.drone_id = available_drone,
                                                !.assigned_at = Now,
                                                !.status = "assigned",
                                                !.trajectory = plan.trajectory],
                    available_drone |-> available_drone,
                    conflicts |-> detect_mission_conflicts(
                                    [drone_id |-> available_drone,
                                     trajectory |-> plan.trajectory], flight_plans),
                    k |-> 1,
                    methods |-> <<>>,
                    adm_plans |-> flight_plans,
                    calls |-> detect_calls([drone_id |-> available_drone,
                                            trajectory |-> plan.trajectory], flight_plans),
                    planned |-> plan.trajectory,
                    planner_results |-> plan.planner_results])

\* a selection that queues the mission as assigned
Select_queued_as_assigned(h, request, mission, available_drone) ==
  /\ available_drone = NoDrone
  /\ active_missions' = DictSet(active_missions, "mission_id",
                                [mission EXCEPT !.status = "assigned"])
  /\ system_stats' = [system_stats EXCEPT !.total_missions = @ + 1]
  /\ last' = [op |-> "create_delivery_request", planner_calls |-> 0,
              response |-> [status_code |-> 200,
                            mission_id |-> mission.mission_id,
                            status |-> "queued"]]
  /\ UNCHANGED <<active_drones, flight_plans, connections, clock, drone, handlers>>

\* lines 161-186: the mission, the selection, and the queue when no drone
\* is idle
Select(h, request, mission, available_drone) ==
  IF available_drone = NoDrone
  THEN /\ active_missions' = DictSet(active_missions, "mission_id", mission)
       /\ system_stats' = [system_stats EXCEPT !.total_missions = @ + 1]
       /\ last' = [op |-> "create_delivery_request", planner_calls |-> 0,
                   response |-> [status_code |-> 200,
                                 mission_id |-> mission.mission_id,
                                 status |-> "queued"]]
       /\ UNCHANGED <<active_drones, flight_plans, connections, clock, drone, handlers>>
  ELSE Assign(h, mission, available_drone,
              PlanMission(active_drones[IndexOf(active_drones, "drone_id",
                                                available_drone, 1)].position,
                          request, Now))

\* POST /api/delivery/request, from its first line to its first suspension;
\* the request is served by the first handler that is free
create_delivery_request(h, request) ==
  /\ handlers[h].pc = "idle"
  /\ \A g \in Handlers : handlers[g].pc = "idle" => ~HandlerBefore(g, h)
  /\ Len(active_missions) + Cardinality(Suspended) < MaxMissions
  /\ system_stats.conflicts_detected < MaxConflicts
  /\ IF ValidationError(request) # ""
     THEN /\ last' = [op |-> "create_delivery_request", planner_calls |-> 0,
                      response |-> HTTPException(400, ValidationError(request))]
          /\ UNCHANGED <<tables, connections, clock, drone, handlers>>
     ELSE Select(h, request, Mission(NewMissionId, request, Now),
                 FirstIdle(active_drones, 1))

\* the handler runs again after its broadcast
resume(h) ==
  /\ handlers[h].pc = "await_broadcast"
  /\ Continue(h, handlers[h])

\* a registration that takes the place of what the table holds for the drone
Registration_overwriting(drone_id, position) ==
  /\ active_drones' = DictSet(active_drones, "drone_id",
                              Telemetry(drone_id, position, 100, "idle"))
  /\ system_stats' = [system_stats EXCEPT !.active_drones = Len(active_drones')]

\* register_drone on the tables: the drone is there and the call raises, or
\* the drone is put at the end of active_drones and counted
Registration(drone_id, position) ==
  IF IndexOf(active_drones, "drone_id", drone_id, 1) # 0
  THEN UNCHANGED <<active_drones, system_stats>>
  ELSE /\ active_drones' = Append(active_drones,
                                  Telemetry(drone_id, position, 100, "idle"))
       /\ system_stats' = [system_stats EXCEPT !.active_drones = Len(active_drones')]

\* what register_drone answers
RegistrationResponse(drone_id) ==
  IF IndexOf(active_drones, "drone_id", drone_id, 1) # 0
  THEN HTTPException(400, "Drone already registered")
  ELSE [status_code |-> 200, status |-> "registered", drone_id |-> drone_id]

\* POST /api/drones/{drone_id}/register
register_drone(drone_id, position) ==
  /\ Registration(drone_id, position)
  /\ UNCHANGED <<last, active_missions, flight_plans, connections, clock, drone, handlers>>

\* a telemetry update that adds a record to the table
Overwrite_appending(telemetry) ==
  active_drones' = Append(active_drones, telemetry)

\* update_telemetry on the table
Overwrite(telemetry) ==
  active_drones' = DictSet(active_drones, "drone_id", telemetry)

\* a telemetry update that gives the missions in the queue to a drone that
\* reports idle
update_telemetry_draining(telemetry) ==
  /\ Overwrite(telemetry)
  /\ active_missions' =
       [i \in 1..Len(active_missions) |->
          IF telemetry.status = "idle" /\ active_missions[i].drone_id = NoDrone
          THEN [active_missions[i] EXCEPT !.drone_id = telemetry.drone_id,
                                          !.status = "assigned"]
          ELSE active_missions[i]]
  /\ UNCHANGED <<last, flight_plans, system_stats, connections, clock, drone, handlers>>

\* POST /api/telemetry/update
update_telemetry(telemetry) ==
  /\ Overwrite(telemetry)
  /\ UNCHANGED <<last, active_missions, flight_plans, system_stats, connections, clock, drone, handlers>>

\* /ws: a client connects, a client goes away
websocket_connect ==
  /\ connections < MaxConnections
  /\ connections' = connections + 1
  /\ UNCHANGED <<tables, clock, drone, handlers, last>>

websocket_disconnect ==
  /\ connections > 0
  /\ connections' = connections - 1
  /\ UNCHANGED <<tables, clock, drone, handlers, last>>

\* time passes
Tick ==
  /\ clock < MaxClock
  /\ clock' = clock + 1
  /\ UNCHANGED <<tables, connections, handlers, drone, last>>

\* what a drone reports: where it is, idle, battery full
TelemetryInputs == {Telemetry(d, Home[d], 100, "idle") : d \in {"drone_001"}}

Next ==
  \/ \E h \in Handlers, request \in Requests : create_delivery_request(h, request)
  \/ \E h \in Handlers : resume(h)
  \/ \E d \in DroneIds : register_drone(d, Home[d])
  \/ \E telemetry \in TelemetryInputs : update_telemetry(telemetry)
  \/ websocket_connect
  \/ websocket_disconnect
  \/ Tick

Spec == Init /\ [][Next]_vars

\* ------------------------------------------------------------------------
\* Properties of the handlers
\* ------------------------------------------------------------------------
Committed == {flight_plans[i].trajectory : i \in 1..Len(flight_plans)}

\* C1: the trajectories in flight_plans are pairwise free of conflict under
\* check_trajectory_conflict
C1_CommittedPlansConflictFree ==
  \A i, j \in 1..Len(flight_plans) :
    i < j => ~trajectories_conflict(flight_plans[i].trajectory, flight_plans[j].trajectory)

\* C5: no two delivery requests in progress have selected the same drone
C5_NoSharedAircraft ==
  \A g, h \in Suspended :
    g # h => handlers[g].available_drone # handlers[h].available_drone

Assigned(response) ==
  response.status_code = 200 /\ "drone_id" \in DOMAIN response

\* C6: a request that is assigned a drone has run check_trajectory_conflict
\* on its planned trajectory against every plan that was committed to
\* another drone when the request came in
C6_ChecksCommittedPlans ==
  (last.op = "create_delivery_request" /\ Assigned(last.response)) =>
    \A i \in 1..Len(last.adm_plans) :
      last.adm_plans[i].drone_id # last.response.drone_id =>
        \E k \in 1..Len(last.calls) :
          /\ last.calls[k].drone_1_id = last.response.drone_id
          /\ last.calls[k].traj_1 = last.planned
          /\ last.calls[k].drone_2_id = last.adm_plans[i].drone_id
          /\ last.calls[k].traj_2 = last.adm_plans[i].trajectory

C6_Witness ==
  /\ last.op = "create_delivery_request"
  /\ Assigned(last.response)
  /\ \E i \in 1..Len(last.adm_plans) : last.adm_plans[i].drone_id # last.response.drone_id

InvalidLocation(request) ==
  \/ ~is_within_operational_area(request.pickup)
  \/ ~is_within_operational_area(request.delivery)
  \/ is_in_no_fly_zone(request.pickup)
  \/ is_in_no_fly_zone(request.delivery)

InvalidRequests == {request \in Requests : InvalidLocation(request)}

PlannerFails(current_position, request) ==
  \/ PlanAt(current_position, request.pickup, Now) = None
  \/ PlanAt(request.pickup, request.delivery,
            PlanAt(current_position, request.pickup, Now).waypoints[
              Len(PlanAt(current_position, request.pickup, Now).waypoints)].eta + 3000) = None

PlanFailure(request) ==
  /\ FirstIdle(active_drones, 1) # NoDrone
  /\ PlannerFails(active_drones[IndexOf(active_drones, "drone_id",
                                        FirstIdle(active_drones, 1), 1)].position, request)

\* C8: when one of the two planner calls of a request returns no trajectory,
\* the request is answered with the plan-failure error and the missions, the
\* plans, the drones (the selected one stays idle) and the counters stay as
\* they are
C8_PlanFailureLeavesNoTrace ==
  [][\A h \in Handlers, request \in Requests \ InvalidRequests :
       (PlanFailure(request) /\ create_delivery_request(h, request)) =>
         /\ UNCHANGED tables
         /\ last'.response.status_code = 500
         /\ last'.response.detail \in {"Could not plan path to pickup location",
                                       "Could not plan path to delivery location"}
         /\ None \in {last'.planner_results[i] : i \in 1..Len(last'.planner_results)}]_vars

C8_Witness ==
  /\ last.op = "create_delivery_request"
  /\ last.response = HTTPException(500, "Could not plan path to delivery location")
  /\ last.planner_calls = 2
  /\ \E i \in 1..Len(active_drones) : active_drones[i].status = "idle"

NoIdleDrone == \A i \in 1..Len(active_drones) : active_drones[i].status # "idle"

\* C17: a valid request that finds no idle drone stores its mission with
\* status idle, no drone and no trajectory, is answered queued, and leaves
\* flight_plans and every drone as they are
C17_QueuedWhenNoIdleDrone ==
  [][\A h \in Handlers, request \in Requests \ InvalidRequests :
       (NoIdleDrone /\ create_delivery_request(h, request)) =>
         /\ UNCHANGED <<flight_plans, active_drones>>
         /\ last'.response.status_code = 200
         /\ last'.response.status = "queued"
         /\ Len(active_missions') = Len(active_missions) + 1
         /\ LET stored == active_missions'[Len(active_missions')]
            IN /\ stored.mission_id = last'.response.mission_id
               /\ stored.status = "idle"
               /\ stored.drone_id = NoDrone
               /\ stored.trajectory = None
               /\ stored.pickup_location = request.pickup
               /\ stored.delivery_location = request.delivery]_vars

C17_Witness ==
  /\ last.op = "create_delivery_request"
  /\ last.response.status_code = 200
  /\ "drone_id" \notin DOMAIN last.response
  /\ Len(active_drones) > 0
  /\ Len(flight_plans) > 0

DroneIdsOf(drones) == [i \in 1..Len(drones) |-> drones[i].drone_id]

EarliestIdle(drones, drone_id) ==
  \E i \in 1..Len(drones) :
    /\ drones[i].drone_id = drone_id
    /\ drones[i].status = "idle"
    /\ \A j \in 1..(i - 1) : drones[j].status # "idle"

NonDecreasingEtas(trajectory) ==
  \A i \in 1..(Len(trajectory.waypoints) - 1) :
    trajectory.waypoints[i].eta <= trajectory.waypoints[i + 1].eta

\* C13: the ETAs never decrease along the trajectories the planner returned
\* to the last request, along their concatenation, along the trajectory the
\* request was answered with (the speed-adjusted one when a conflict was
\* resolved), and along every committed plan
C13_EtasNonDecreasing ==
  /\ \A trajectory \in Committed : NonDecreasingEtas(trajectory)
  /\ (last.op = "create_delivery_request" /\ Assigned(last.response)) =>
       /\ \A i \in 1..Len(last.planner_results) : NonDecreasingEtas(last.planner_results[i])
       /\ NonDecreasingEtas(last.planned)
       /\ NonDecreasingEtas(last.response.trajectory)

C13_Witness ==
  /\ last.op = "create_delivery_request"
  /\ Assigned(last.response)
  /\ last.methods = <<"speed_adjustment">>
  /\ last.response.trajectory # last.planned
  /\ Len(last.planned.waypoints) > 3

\* C32: the trajectory create_delivery_request makes of the two planned
\* trajectories has the waypoints of the first followed by those of the
\* second, and its total_distance, total_time and estimated_battery_usage
\* are the sums of theirs
C32_CombinedTotalsAreSums ==
  (last.op = "create_delivery_request" /\ Assigned(last.response)) =>
    /\ last.planned.waypoints
         = last.planner_results[1].waypoints \o last.planner_results[2].waypoints
    /\ last.planned.total_distance
         = last.planner_results[1].total_distance + last.planner_results[2].total_distance
    /\ last.planned.total_time
         = last.planner_results[1].total_time + last.planner_results[2].total_time
    /\ last.planned.estimated_battery_usage
         = last.planner_results[1].estimated_battery_usage
             + last.planner_results[2].estimated_battery_usage

\* the resolve_conflict calls of the request just answered: those that
\* returned, and the one that raised
Answered ==
  IF last.op = "create_delivery_request" /\ "methods" \in DOMAIN last
  THEN Len(last.methods)
         + (IF last.response = HTTPException(500, "Internal Server Error") THEN 1 ELSE 0)
  ELSE 0

\* the resolve_conflict calls a handler has made where it stands
Invocations(h) ==
  IF handlers[h].pc = "await_broadcast" THEN Len(handlers[h].methods) ELSE 0

\* C34: conflicts_detected and conflicts_resolved are equal in every state;
\* a step in which a handler calls resolve_conflict adds one to each for
\* every call, and the steps of register_drone, of the websocket and of
\* the clock do not change them
C34_CountersMoveTogether ==
  /\ [](system_stats.conflicts_resolved = system_stats.conflicts_detected)
  /\ [][/\ (system_stats.conflicts_resolved - system_stats.conflicts_detected)'
            = system_stats.conflicts_resolved - system_stats.conflicts_detected
        /\ (\/ connections' # connections
            \/ clock' # clock
            \/ Len(active_drones') # Len(active_drones)
            \/ system_stats'.active_drones # system_stats.active_drones) =>
             system_stats'.conflicts_detected = system_stats.conflicts_detected
        /\ (handlers' = handlers /\ last' # last /\ last'.op = "create_delivery_request") =>
             system_stats'.conflicts_detected = system_stats.conflicts_detected + Answered'
        /\ \A h \in Handlers :
             handlers'[h] # handlers[h] =>
               system_stats'.conflicts_detected
                 = system_stats.conflicts_detected - Invocations(h)
                     + (IF handlers'[h].pc = "await_broadcast"
                        THEN Invocations(h)' ELSE Answered')]_vars

\* C35: a mission stored without a drone stays as it was stored, in its
\* place in active_missions, over every step
C35_QueuedMissionsStay ==
  [][\A i \in 1..Len(active_missions) :
       active_missions[i].drone_id = NoDrone =>
         /\ Len(active_missions') >= i
         /\ active_missions'[i] = active_missions[i]
         /\ active_missions[i].status = "idle"
         /\ active_missions[i].trajectory = None]_vars

\* a mission is in the queue, a drone that came later is idle, and a later
\* request was given a drone
C35_Witness_QueuedBehindAssigned ==
  /\ Len(active_missions) >= 3
  /\ active_missions[1].drone_id = NoDrone
  /\ active_missions[2].drone_id # NoDrone
  /\ active_missions[3].drone_id = NoDrone
  /\ \E i \in 1..Len(active_drones) : active_drones[i].status = "idle"

\* C36: a plan committed for a drone stays the drone's plan: no step puts
\* another trajectory in its place in flight_plans, and no step gives the
\* drone of a mission in active_missions to another mission
C36_OneMissionPerDrone ==
  /\ [][\A i \in 1..Len(flight_plans) :
          Len(flight_plans') >= i /\ flight_plans'[i] = flight_plans[i]]_vars
  /\ [](\A i, j \in 1..Len(active_missions) :
          (active_missions[i].drone_id = active_missions[j].drone_id
             /\ active_missions[i].drone_id # NoDrone) => i = j)

\* C37: the drones of active_drones are those register_drone has put
\* there: the table grows only in a step that sets the active_drones
\* counter to its size, and the counter is the size of the table in every
\* state
C37_OnlyRegisteredDrones ==
  /\ [](system_stats.active_drones = Len(active_drones))
  /\ [][Len(active_drones') # Len(active_drones) =>
          system_stats'.active_drones = Len(active_drones')]_vars

\* C38: total_missions is the number of missions in active_missions in
\* every state; a step adds one to it exactly when it adds a mission, which
\* is when a request is answered queued or assigned, and no step takes a
\* mission away
C38_TotalMissionsIsTableSize ==
  /\ [](system_stats.total_missions = Len(active_missions))
  /\ [][/\ Len(active_missions') >= Len(active_missions)
        /\ \A i \in 1..Len(active_missions) :
             active_missions'[i].mission_id = active_missions[i].mission_id
        /\ system_stats'.total_missions - system_stats.total_missions
             = Len(active_missions') - Len(active_missions)
        /\ system_stats'.total_missions - system_stats.total_missions \in {0, 1}
        /\ system_stats'.total_missions # system_stats.total_missions =>
             /\ last'.op = "create_delivery_request"
             /\ last'.response.status_code = 200
             /\ last'.response.status \in {"queued", "assigned"}
             /\ active_missions'[Len(active_missions')].mission_id
                  = last'.response.mission_id
        /\ (/\ last' # last
            /\ last'.op = "create_delivery_request"
            /\ last'.response.status_code # 200) =>
             system_stats'.total_missions = system_stats.total_missions]_vars

\* a request was refused, one failed in the planner, one is queued and one
\* assigned: two missions
C38_Witness_TwoOfFour ==
  /\ system_stats.total_missions = 2
  /\ \E i, j \in 1..Len(active_missions) :
       active_missions[i].drone_id = NoDrone /\ active_missions[j].drone_id # NoDrone
  /\ last.op = "create_delivery_request"
  /\ last.response.status_code = 500

\* ------------------------------------------------------------------------
\* plan_trajectory on its own: the inputs are drawn at the start, the one
\* action calls the planner
\* ------------------------------------------------------------------------
Quiet ==
  /\ active_drones = <<>>
  /\ active_missions = <<>>
  /\ flight_plans = <<>>
  /\ system_stats = [total_missions |-> 0, completed_missions |-> 0,
                     conflicts_detected |-> 0, conflicts_resolved |-> 0,
                     active_drones |-> 0]
  /\ connections = 0
  /\ clock = 0
  /\ handlers = [h \in Handlers |-> Idle]

\* starts on the lattice at a lane's altitude, the airport's lattice point
\* and a point south of the operational area among them; goals on the ground
PlanInputStarts ==
  {Position(lat, lon, 500) : lat \in {0 - 1000, 0, 1000, 2000}, lon \in {0, 1000, 2000, 3000}}

PlanInputGoals ==
  {Ground(0, 0), Ground(1000, 1000), Ground(2000, 2000), Ground(0, 3000), Ground(3000, 1000)}

PlanInputTimes == {0, TIME_RESOLUTION}

InitPlan ==
  /\ Quiet
  /\ Parked
  /\ last \in {[op |-> "call", start |-> s, goal |-> g, start_time |-> t] :
                 s \in PlanInputStarts, g \in PlanInputGoals, t \in PlanInputTimes}

\* a call of plan_trajectory done: what it returned, how many nodes it
\* popped, the cells whose neighbours it generated, what it left in
\* open_set and the node it reached the goal with
Done(call, search) ==
  [op |-> "plan_trajectory", start |-> call.start, goal |-> call.goal,
   start_time |-> call.start_time, result |-> search.trajectory,
   iterations |-> search.iterations, expanded |-> search.expanded,
   left |-> search.left, reached |-> search.reached]

plan ==
  /\ last.op = "call"
  /\ last' = Done(last, plan_search(last.start, last.goal, last.start_time))
  /\ UNCHANGED <<tables, connections, clock, drone, handlers>>

NextPlan == plan

SpecPlan == InitPlan /\ [][NextPlan]_vars

Planned == last.op = "plan_trajectory" /\ last.result # None

\* C2: every waypoint of a trajectory plan_trajectory returns, the first
\* included, is outside the no-fly zones and inside the operational area
C2_WaypointsFlyable ==
  Planned =>
    \A i \in 1..Len(last.result.waypoints) :
      /\ ~is_in_no_fly_zone(last.result.waypoints[i].position)
      /\ is_within_operational_area(last.result.waypoints[i].position)

\* C12: a trajectory plan_trajectory returns has at least 2 waypoints
C12_AtLeastTwoWaypoints ==
  Planned => Len(last.result.waypoints) >= 2

\* C14: every waypoint of a trajectory plan_trajectory returns, the last
\* included, has its speed between DRONE_MIN_SPEED and DRONE_MAX_SPEED and
\* its altitude between 0 and DRONE_MAX_ALTITUDE
C14_SpeedAndAltitudeInBounds ==
  Planned =>
    \A i \in 1..Len(last.result.waypoints) :
      /\ DRONE_MIN_SPEED <= last.result.waypoints[i].speed
      /\ last.result.waypoints[i].speed <= DRONE_MAX_SPEED
      /\ 0 <= last.result.waypoints[i].position.altitude
      /\ last.result.waypoints[i].position.altitude <= DRONE_MAX_ALTITUDE

\* C23: a call of plan_trajectory ends after at most MAX_ITERATIONS pops,
\* with a trajectory, or with None when open_set is empty or MAX_ITERATIONS
\* nodes have been popped
C23_SearchIsBounded ==
  last.op = "plan_trajectory" =>
    /\ last.iterations <= MAX_ITERATIONS
    /\ Len(last.expanded) <= last.iterations
    /\ last.result = None => (last.left = 0 \/ last.iterations = MAX_ITERATIONS)

\* a search given up at the bound with open_set not empty
C23_Witness_GivenUp ==
  /\ last.op = "plan_trajectory"
  /\ last.result = None
  /\ last.iterations = MAX_ITERATIONS
  /\ last.left > 0

RECURSIVE Ancestor(_, _)
\* the node k parents above a node
Ancestor(node, k) == IF k = 0 THEN node ELSE Ancestor(node.parent, k - 1)

\* C31: a trajectory plan_trajectory returns starts at start_time, ends
\* less than 1.5 * GRID_RESOLUTION from the goal, and its waypoints are the
\* node that reached the goal and its parents, the one without a parent
\* first
C31_PathFromStartToGoal ==
  Planned =>
    /\ last.result.waypoints[1].eta = last.start_time
    /\ 2 * Meters(distance_3d(
                    last.result.waypoints[Len(last.result.waypoints)].position.latitude,
                    last.result.waypoints[Len(last.result.waypoints)].position.longitude,
                    last.result.waypoints[Len(last.result.waypoints)].position.altitude,
                    last.goal.latitude, last.goal.longitude, last.goal.altitude))
         < 3 * GRID_RESOLUTION
    /\ Ancestor(last.reached, Len(last.result.waypoints) - 1).parent = None
    /\ \A i \in 1..Len(last.result.waypoints) :
         /\ last.result.waypoints[i].position
              = to_position(Ancestor(last.reached, Len(last.result.waypoints) - i))
         /\ last.result.waypoints[i].eta
              = Ancestor(last.reached, Len(last.result.waypoints) - i).time

\* a trajectory of three waypoints or more returned for a later start time
C31_Witness_SeveralSteps ==
  /\ Planned
  /\ Len(last.result.waypoints) >= 3
  /\ last.start_time > 0
  /\ last.result.waypoints[1].position # last.result.waypoints[3].position

\* C33: the estimated_battery_usage of a trajectory plan_trajectory returns,
\* in hundredths of a percent, is total_time * DRONE_POWER_CONSUMPTION /
\* DRONE_BATTERY_CAPACITY * 100 / 3600 with total_time the last eta less the
\* first, and is 100 percent at most
C33_BatteryEstimate ==
  Planned =>
    /\ last.result.total_time
         = last.result.waypoints[Len(last.result.waypoints)].eta - last.result.waypoints[1].eta
    /\ last.result.estimated_battery_usage
         = (last.result.total_time * DRONE_POWER_CONSUMPTION * 100)
             \div (DRONE_BATTERY_CAPACITY * 3600)
    /\ last.result.estimated_battery_usage <= 100 * 100

\* C29: in one call of plan_trajectory no cell has its neighbours generated
\* more than once
C29_NoCellExpandedTwice ==
  last.op = "plan_trajectory" =>
    \A i, j \in 1..Len(last.expanded) : last.expanded[i] = last.expanded[j] => i = j

\* ------------------------------------------------------------------------
\* check_trajectory_conflict and resolve_conflict on their own: the two
\* trajectories are drawn at the start from the missions the planner gives
\* the drones of the model
\* ------------------------------------------------------------------------
Served == {r \in Requests : ValidationError(r) = ""}

MissionTrajectories ==
  {m.trajectory :
     m \in {n \in {PlanMission(Home[d], r, t) :
                     d \in DroneIds, r \in Served, t \in {0, TickLength}} :
              n.error = ""}}

\* the trajectory of a drone that leaves for (2000, 3000) from where, and at
\* the time when, the trajectory ends
FollowOn(trajectory) ==
  plan_trajectory(trajectory.waypoints[Len(trajectory.waypoints)].position,
                  Ground(2000, 3000),
                  trajectory.waypoints[Len(trajectory.waypoints)].eta)

InputTrajectories ==
  MissionTrajectories \cup ({FollowOn(trajectory) : trajectory \in MissionTrajectories} \ {None})

InitResolve ==
  /\ Quiet
  /\ Parked
  /\ last \in {[op |-> "call", traj_1 |-> a, traj_2 |-> b] :
                 a \in InputTrajectories, b \in InputTrajectories}

\* a call of check_trajectory_conflict done: what it returned and how many
\* times its loop sampled the two trajectories
Checked(call, scan) ==
  [op |-> "check_trajectory_conflict", traj_1 |-> call.traj_1, traj_2 |-> call.traj_2,
   result |-> scan.conflict, ticks |-> scan.ticks]

check ==
  /\ last.op = "call"
  /\ last' = Checked(last, conflict_scan("drone_1", last.traj_1, "drone_2", last.traj_2))
  /\ UNCHANGED <<tables, connections, clock, drone, handlers>>

\* a call that leaves its result in its first argument
resolve_writing_through ==
  /\ last.op = "check_trajectory_conflict"
  /\ last.result # None
  /\ LET result == resolve_conflict(last.result, last.traj_1, last.traj_2)
     IN last' = [op |-> "resolve_conflict", conflict |-> last.result,
                 traj_1 |-> IF IsException(result) THEN last.traj_1 ELSE result.trajectory,
                 traj_2 |-> last.traj_2,
                 result |-> result]
  /\ UNCHANGED <<tables, connections, clock, drone, handlers>>

\* resolve_conflict on the conflict found; traj_1 and traj_2 are the
\* arguments as the call leaves them: adjust_speed builds new waypoints and a
\* new trajectory and assigns to nothing it was given
resolve ==
  /\ last.op = "check_trajectory_conflict"
  /\ last.result # None
  /\ last' = [op |-> "resolve_conflict", conflict |-> last.result,
              traj_1 |-> last.traj_1, traj_2 |-> last.traj_2,
              result |-> resolve_conflict(last.result, last.traj_1, last.traj_2)]
  /\ UNCHANGED <<tables, connections, clock, drone, handlers>>

\* resolve_conflict once more, on the trajectory a speed adjustment returned
resolve_again ==
  /\ last.op = "resolve_conflict"
  /\ ~IsException(last.result)
  /\ last.result.method = "speed_adjustment"
  /\ last' = [op |-> "resolve_again", conflict |-> last.conflict,
              traj_1 |-> last.result.trajectory, traj_2 |-> last.traj_2,
              result |-> resolve_conflict(last.conflict, last.result.trajectory, last.traj_2)]
  /\ UNCHANGED <<tables, connections, clock, drone, handlers>>

\* adjust_speed on its own, of the first or the second trajectory for the
\* conflict found
adjust(k) ==
  /\ last.op = "check_trajectory_conflict"
  /\ last.result # None
  /\ last' = [op |-> "adjust_speed", conflict |-> last.result,
              trajectory |-> IF k = 1 THEN last.traj_1 ELSE last.traj_2,
              result |-> adjust_speed(IF k = 1 THEN last.traj_1 ELSE last.traj_2,
                                      last.result)]
  /\ UNCHANGED <<tables, connections, clock, drone, handlers>>

NextResolve ==
  \/ check
  \/ resolve
  \/ resolve_again
  \/ \E k \in {1, 2} : adjust(k)

SpecResolve == InitResolve /\ [][NextResolve]_vars

\* the window of check_trajectory_conflict and its ticks
WindowStart(traj_1, traj_2) == Max(traj_1.waypoints[1].eta, traj_2.waypoints[1].eta)

WindowEnd(traj_1, traj_2) ==
  Min(traj_1.waypoints[Len(traj_1.waypoints)].eta, traj_2.waypoints[Len(traj_2.waypoints)].eta)

WindowTicks(traj_1, traj_2) ==
  {WindowStart(traj_1, traj_2) + k * TIME_RESOLUTION :
     k \in 0..((WindowEnd(traj_1, traj_2) - WindowStart(traj_1, traj_2)) \div TIME_RESOLUTION)}

SampledAt(traj_1, traj_2, t) ==
  interpolate_position(traj_1, t) # None /\ interpolate_position(traj_2, t) # None

\* both minima are violated between the two samples
TooClose(pos_1, pos_2) ==
  /\ Meters(haversine_distance(pos_1.latitude, pos_1.longitude,
                               pos_2.latitude, pos_2.longitude)) < HORIZONTAL_SEPARATION
  /\ Abs(pos_1.altitude - pos_2.altitude) < VERTICAL_SEPARATION

ViolatedAt(traj_1, traj_2, t) ==
  /\ SampledAt(traj_1, traj_2, t)
  /\ TooClose(interpolate_position(traj_1, t), interpolate_position(traj_2, t))

Resolved1 == last.op = "resolve_conflict" /\ ~IsException(last.result)

\* C3: when resolve_conflict returns speed_adjustment or altitude_change,
\* check_trajectory_conflict on the returned trajectory and traj_2 is None
C3_ResolvedTrajectoryIsClean ==
  (Resolved1 /\ last.result.method \in {"speed_adjustment", "altitude_change"}) =>
    check_trajectory_conflict("drone_1", last.result.trajectory, "drone_2", last.traj_2) = None

C3_Witness ==
  /\ Resolved1
  /\ last.result.method = "speed_adjustment"
  /\ last.result.trajectory # last.traj_1

\* C4: resolve_conflict returns, for every conflict and pair of
\* trajectories, one of speed_adjustment, altitude_change, replan_required
C4_ResolveIsTotal ==
  last.op = "resolve_conflict" =>
    /\ ~IsException(last.result)
    /\ last.result.method \in {"speed_adjustment", "altitude_change", "replan_required"}

\* C10: when check_trajectory_conflict returns None, at every tick of the
\* window [max of the starts, min of the ends] the two samples are apart,
\* horizontally or vertically
C10_NoConflictMeansSeparated ==
  (last.op = "check_trajectory_conflict" /\ last.result = None) =>
    \A t \in WindowTicks(last.traj_1, last.traj_2) :
      ~ViolatedAt(last.traj_1, last.traj_2, t)

\* C11: the conflict check_trajectory_conflict returns is at a tick of the
\* window where both minima are violated, no earlier tick violates them,
\* and its position is the sample of the first trajectory at that tick
C11_EarliestViolatingTick ==
  (last.op = "check_trajectory_conflict" /\ last.result # None) =>
    /\ last.result.conflict_time \in WindowTicks(last.traj_1, last.traj_2)
    /\ ViolatedAt(last.traj_1, last.traj_2, last.result.conflict_time)
    /\ \A t \in WindowTicks(last.traj_1, last.traj_2) :
         t < last.result.conflict_time => ~ViolatedAt(last.traj_1, last.traj_2, t)
    /\ last.result.conflict_position = interpolate_position(last.traj_1, last.result.conflict_time)

\* a conflict after the first tick of the window, the drones at different places
C11_Witness ==
  /\ last.op = "check_trajectory_conflict"
  /\ last.result # None
  /\ last.result.conflict_time > WindowStart(last.traj_1, last.traj_2)
  /\ last.result.conflict_position
       # interpolate_position(last.traj_2, last.result.conflict_time)

\* C15: resolve_conflict on a trajectory that is already free of conflict
\* with traj_2 (the one a speed adjustment returned) returns that trajectory
C15_ResolveIdempotent ==
  (last.op = "resolve_again" /\ ~IsException(last.result)) =>
    last.result.trajectory = last.traj_1

C27_FirstEtaPreserved ==
  last.op = "adjust_speed" =>
    last.result.waypoints[1].eta = last.trajectory.waypoints[1].eta

\* the distance between two waypoints, in decimetres as the program
\* measures it
Leg(a, b) ==
  Meters(distance_3d(a.position.latitude, a.position.longitude, a.position.altitude,
                     b.position.latitude, b.position.longitude, b.position.altitude))

\* C28: in the trajectory adjust_speed returns, a waypoint whose eta was
\* before the conflict's time has 0.7 times its speed, DRONE_MIN_SPEED at
\* least, and every other waypoint DRONE_CRUISE_SPEED; positions and headings
\* are those given; and every waypoint but the first is due at the new eta of
\* the waypoint before it plus the distance between the two over its own
\* new speed
C28_AdjustedSpeedsAndEtas ==
  last.op = "adjust_speed" =>
    /\ Len(last.result.waypoints) = Len(last.trajectory.waypoints)
    /\ \A i \in 1..Len(last.trajectory.waypoints) :
         /\ last.result.waypoints[i].position = last.trajectory.waypoints[i].position
         /\ last.result.waypoints[i].heading = last.trajectory.waypoints[i].heading
         /\ last.result.waypoints[i].speed =
              IF last.trajectory.waypoints[i].eta < last.conflict.conflict_time
              THEN Max((7 * last.trajectory.waypoints[i].speed) \div 10, DRONE_MIN_SPEED)
              ELSE DRONE_CRUISE_SPEED
         /\ i > 1 =>
              last.result.waypoints[i].eta =
                last.result.waypoints[i - 1].eta
                  + (100 * Leg(last.result.waypoints[i - 1], last.result.waypoints[i]))
                      \div last.result.waypoints[i].speed

\* a trajectory of more than two waypoints adjusted, with waypoints before
\* the conflict and after it
C28_Witness_SlowedThenCruising ==
  /\ last.op = "adjust_speed"
  /\ Len(last.trajectory.waypoints) > 2
  /\ \E i, j \in 2..Len(last.trajectory.waypoints) :
       /\ last.trajectory.waypoints[i].eta < last.conflict.conflict_time
       /\ last.trajectory.waypoints[j].eta >= last.conflict.conflict_time
       /\ last.result.waypoints[i].eta # last.trajectory.waypoints[i].eta
       /\ last.result.waypoints[j].speed # last.trajectory.waypoints[j].speed

\* C24: a call of check_trajectory_conflict on two trajectories that overlap
\* in time samples them at most ceil(window / TIME_RESOLUTION) times, window
\* being the end of the common time span less its start
C24_TicksWithinWindow ==
  (/\ last.op = "check_trajectory_conflict"
   /\ WindowStart(last.traj_1, last.traj_2) < WindowEnd(last.traj_1, last.traj_2)) =>
    last.ticks * TIME_RESOLUTION
      < WindowEnd(last.traj_1, last.traj_2) - WindowStart(last.traj_1, last.traj_2)
          + TIME_RESOLUTION

\* ------------------------------------------------------------------------
\* drone_simulator.py: a drone of the fleet under simulation_loop and
\* mission_listener.  In this specification clock counts the passes of
\* simulation_loop.
\* ------------------------------------------------------------------------
MaxUpdates == 45
MaxAssignments == 2

\* what create_delivery_request leaves in mission.trajectory after its
\* resolution of one conflict
AdjustedBy(traj_1, resolved) ==
  IF IsException(resolved) THEN traj_1 ELSE resolved.trajectory

AdjustedFor(traj_1, traj_2, conflict) ==
  IF conflict = None THEN traj_1
  ELSE AdjustedBy(traj_1, resolve_conflict(conflict, traj_1, traj_2))

Adjusted(traj_1, traj_2) ==
  AdjustedFor(traj_1, traj_2, check_trajectory_conflict("drone_1", traj_1, "drone_2", traj_2))

\* the requests drone_001 is sent on from its home: the first and the third
\* have pickup and delivery within the planner's reach of where their legs
\* start, the second takes the drone north along its lane
DroneRequests ==
  { [pickup |-> Ground(1000, 0), delivery |-> Ground(0, 1000)],
    [pickup |-> Ground(1000, 0), delivery |-> Ground(3000, 0)],
    [pickup |-> Ground(0, 0), delivery |-> Ground(1000, 0)] }

\* the first of them as planned: both its waypoints have speed 0
HeldTrajectory ==
  PlanMission(Home["drone_001"],
              [pickup |-> Ground(1000, 0), delivery |-> Ground(0, 1000)], 0).trajectory

\* Where a drone has both to change its altitude and to move over the
\* ground, the floats of update_physics leave of the altitude a remainder
\* far below the decimetre, and the direction of the next pass is computed
\* from it.  The fixed point of the model is exact for a trajectory at the
\* altitude of the drone and for one that holds the drone where it is.
Exact(trajectory) ==
  \/ \A i \in 1..Len(trajectory.waypoints) :
        trajectory.waypoints[i].position.altitude = Home["drone_001"].altitude
  \/ \A i \in 1..Len(trajectory.waypoints) : trajectory.waypoints[i].speed = 0

\* the trajectories a mission_created message brings to drone_001: planned
\* from its home, as planned or after a conflict with another drone's plan
DroneTrajectories ==
  {trajectory \in {Adjusted(PlanMission(Home["drone_001"], request, 0).trajectory, other) :
                     request \in DroneRequests, other \in MissionTrajectories} :
     Exact(trajectory)}

\* get_telemetry
get_telemetry(self) ==
  [drone_id |-> self.drone_id, position |-> self.position, velocity |-> self.velocity,
   battery_level |-> self.battery_level \div Percent, status |-> self.status]

\* the drone after assign_trajectory(HeldTrajectory) and 116640 passes of
\* simulation_loop: it is past the first waypoint, where it started, and the
\* second has speed 0, so that it stays where it is while its battery goes
\* down by BatteryConsumed each pass
Held ==
  [VirtualDrone("drone_001", Home["drone_001"]) EXCEPT
     !.trajectory = HeldTrajectory, !.current_waypoint_index = 1,
     !.status = "en_route_pickup",
     !.battery_level = 100 * Percent - 116639 * BatteryConsumed(0, update_interval)]

InitDrone ==
  /\ Quiet
  /\ last = [op |-> "none"]
  /\ drone \in {VirtualDrone("drone_001", Home["drone_001"]), Held}

\* one pass of simulation_loop: update_physics, then the telemetry goes to
\* POST /api/telemetry/update
simulation_loop ==
  /\ clock < MaxUpdates
  /\ clock' = clock + 1
  /\ drone' = update_physics(drone, update_interval)
  /\ active_drones' = DictSet(active_drones, "drone_id", get_telemetry(drone'))
  /\ UNCHANGED <<active_missions, flight_plans, system_stats, connections, handlers, last>>

\* mission_listener on a mission_created message for the drone; the
\* missions created are counted where create_delivery_request counts them
mission_listener(trajectory) ==
  /\ system_stats.total_missions < MaxAssignments
  /\ system_stats' = [system_stats EXCEPT !.total_missions = @ + 1]
  /\ drone' = assign_trajectory(drone, trajectory)
  /\ UNCHANGED <<active_drones, active_missions, flight_plans, connections, clock,
                 handlers, last>>

NextDrone ==
  \/ simulation_loop
  \/ \E trajectory \in DroneTrajectories : mission_listener(trajectory)

SpecDrone == InitDrone /\ [][NextDrone]_vars

\* the stages of a mission, in their order
Stages ==
  <<"idle", "assigned", "en_route_pickup", "at_pickup", "en_route_delivery", "at_delivery">>

StageOf(status) ==
  IF \E i \in 1..Len(Stages) : Stages[i] = status
  THEN CHOOSE i \in 1..Len(Stages) : Stages[i] = status
  ELSE 0

\* C19: every change of the drone's status is to the next stage of idle,
\* assigned, en_route_pickup, at_pickup, en_route_delivery, at_delivery, or
\* to emergency or maintenance
C19_StatusAdvancesInOrder ==
  [][drone'.status # drone.status =>
       \/ drone'.status \in {"emergency", "maintenance"}
       \/ /\ StageOf(drone.status) # 0
          /\ StageOf(drone'.status) = StageOf(drone.status) + 1]_vars

\* C20: a drone whose battery falls under 10 percent is in emergency, and a
\* drone in emergency stays in emergency
C20_EmergencyIsTerminal ==
  [][/\ (drone'.battery_level < drone.battery_level /\ drone'.battery_level < 10 * Percent) =>
          drone'.status = "emergency"
     /\ drone.status = "emergency" => drone'.status = "emergency"]_vars

\* ------------------------------------------------------------------------
\* main.py: register_drone and update_telemetry with their answers on
\* record, among the requests of one handler
\* ------------------------------------------------------------------------
\* what the drones report of themselves
TelemetryRecords ==
  {Telemetry(d, Away, battery_level, status) :
     d \in {"drone_001", "drone_002"},
     battery_level \in {100, 57}, status \in {"idle", "en_route_pickup"}}

\* a place at the altitude of another of ALTITUDE_LAYERS, where
\* initialize_fleet may as well put a drone
Aloft(position) == [position EXCEPT !.altitude = ALTITUDE_LAYERS[4]]

registered(drone_id, position) ==
  /\ Registration(drone_id, position)
  /\ last' = [op |-> "register_drone", drone_id |-> drone_id, position |-> position,
              response |-> RegistrationResponse(drone_id)]
  /\ UNCHANGED <<active_missions, flight_plans, connections, clock, drone, handlers>>

\* repeated: the call before this one was update_telemetry of the same record
reported(telemetry) ==
  /\ Overwrite(telemetry)
  /\ last' = [op |-> "update_telemetry", telemetry |-> telemetry,
              repeated |-> (last.op = "update_telemetry" /\ last.telemetry = telemetry),
              response |-> [status_code |-> 200, status |-> "ok"]]
  /\ UNCHANGED <<active_missions, flight_plans, system_stats, connections, clock, drone,
                 handlers>>

NextRegistry ==
  \/ \E d \in {"drone_001", "drone_002"} :
       \E position \in {Home[d], Aloft(Home[d])} : registered(d, position)
  \/ \E telemetry \in TelemetryRecords : reported(telemetry)
  \/ create_delivery_request("h1", [pickup |-> Ground(1000, 0), delivery |-> Ground(0, 1000)])

SpecRegistry == Init /\ [][NextRegistry]_vars

\* the records active_drones holds for a drone
RecordsOf(drones, drone_id) ==
  {i \in 1..Len(drones) : drones[i].drone_id = drone_id}

\* C21: register_drone of a drone that active_drones holds answers 400,
\* "Drone already registered", and leaves the drone's record, the tables and
\* the counters as they were; of a drone it does not hold, it adds one
\* record for the drone, idle with battery 100, and changes no other record.
C21_RegistrationRejectsDuplicates ==
  [][(last'.op = "register_drone" /\ last' # last) =>
       IF RecordsOf(active_drones, last'.drone_id) # {}
       THEN /\ last'.response = HTTPException(400, "Drone already registered")
            /\ tables' = tables
       ELSE /\ last'.response.status = "registered"
            /\ Len(active_drones') = Len(active_drones) + 1
            /\ \A i \in 1..Len(active_drones) : active_drones'[i] = active_drones[i]
            /\ active_drones'[Len(active_drones')].drone_id = last'.drone_id
            /\ active_drones'[Len(active_drones')].status = "idle"
            /\ active_drones'[Len(active_drones')].battery_level = 100
            /\ <<active_missions, flight_plans>>' = <<active_missions, flight_plans>>]_vars

\* a registration was refused for a drone that is on a mission, and one was
\* accepted after another drone
C21_Witness_Refused ==
  /\ last.op = "register_drone"
  /\ last.response.status_code = 400
  /\ \E i \in RecordsOf(active_drones, last.drone_id) : active_drones[i].status = "assigned"
  /\ Len(active_drones) = 2

\* C22: update_telemetry of the record that the call before it stored leaves
\* the tables and the counters as the first call left them, and after every
\* update_telemetry the one record active_drones holds for the drone is the
\* record of the call.
C22_TelemetryOverwriteIsIdempotent ==
  /\ [][(last'.op = "update_telemetry" /\ last'.repeated /\ last' # last) =>
          tables' = tables]_vars
  /\ [](last.op = "update_telemetry" =>
          /\ Cardinality(RecordsOf(active_drones, last.telemetry.drone_id)) = 1
          /\ \A i \in RecordsOf(active_drones, last.telemetry.drone_id) :
               active_drones[i] = last.telemetry)

\* the same record was stored twice in a row over the record of a drone on
\* a mission, with a mission and a plan in the tables
C22_Witness_StoredTwice ==
  /\ last.op = "update_telemetry"
  /\ last.repeated
  /\ last.telemetry.status = "en_route_pickup"
  /\ last.telemetry.battery_level = 57
  /\ Len(active_missions) > 0
  /\ Len(flight_plans) > 0
  /\ Len(active_drones) = 2

\* ------------------------------------------------------------------------
\* geofencing.py on its own: get_position_cost_multiplier over a lattice of
\* positions that covers every polygon and its surroundings at several
\* altitudes, get_safe_altitude_for_direction over headings of three turns
\* and altitudes in, between and beyond the lanes
\* ------------------------------------------------------------------------
GeofenceLatitudes == {200 * k - 600 : k \in 0..21}
GeofenceLongitudes == {200 * k + 400 : k \in 0..21}
GeofenceAltitudes == {0, 500}
GeofenceHeadings ==
  {0 - 405, 0 - 360, 0 - 316, 0 - 315, 0 - 226, 0 - 225, 0 - 136, 0 - 135, 0 - 90,
   0 - 46, 0 - 45, 0 - 1, 0, 44, 45, 90, 134, 135, 180, 224, 225, 270, 314, 315, 359,
   360, 404, 405, 494, 495, 584, 585, 674, 675, 720}
CurrentAltitudes == {0, 300, 400, 500, 550, 600, 700, 800, 900, 1000, 1100, 1200}

InitGeofence ==
  /\ Quiet
  /\ Parked
  /\ last \in {[op |-> "position", position |-> Position(lat, lon, alt)] :
                 lat \in GeofenceLatitudes, lon \in GeofenceLongitudes,
                 alt \in GeofenceAltitudes}
               \cup {[op |-> "heading", heading |-> hdg, current_altitude |-> alt] :
                       hdg \in GeofenceHeadings, alt \in CurrentAltitudes}

cost ==
  /\ last.op = "position"
  /\ last' = [op |-> "get_position_cost_multiplier", position |-> last.position,
              result |-> get_position_cost_multiplier(last.position)]
  /\ UNCHANGED <<tables, connections, clock, drone, handlers>>

lane ==
  /\ last.op = "heading"
  /\ last' = [op |-> "get_safe_altitude_for_direction", heading |-> last.heading,
              current_altitude |-> last.current_altitude,
              result |-> get_safe_altitude_for_direction(last.heading,
                                                         last.current_altitude)]
  /\ UNCHANGED <<tables, connections, clock, drone, handlers>>

NextGeofence == cost \/ lane

SpecGeofence == InitGeofence /\ [][NextGeofence]_vars

\* the sensitive areas a position is in
AreasAt(position) ==
  {k \in 1..Len(SENSITIVE_AREAS) :
     point_in_polygon(<<position.latitude, position.longitude>>, SENSITIVE_AREAS[k].polygon)}

\* C25: get_position_cost_multiplier is inf exactly in the no-fly zones;
\* elsewhere it is the greatest cost_multiplier of the sensitive areas the
\* position is in, 1 when it is in none; and it is the same at every altitude
C25_CostMultiplier ==
  last.op = "get_position_cost_multiplier" =>
    /\ last.result = inf <=> is_in_no_fly_zone(last.position)
    /\ ~is_in_no_fly_zone(last.position) =>
         /\ AreasAt(last.position) = {} => last.result = 1
         /\ AreasAt(last.position) # {} =>
              /\ \E k \in AreasAt(last.position) :
                   last.result = SENSITIVE_AREAS[k].cost_multiplier
              /\ \A k \in AreasAt(last.position) :
                   last.result >= SENSITIVE_AREAS[k].cost_multiplier
    /\ \A alt \in {0, 300, 1100} :
         get_position_cost_multiplier([last.position EXCEPT !.altitude = alt]) = last.result

\* the cost of a position in the hospital's area, in the air
C25_Witness_InArea ==
  /\ last.op = "get_position_cost_multiplier"
  /\ last.position.altitude > 0
  /\ AreasAt(last.position) = {2}
  /\ last.result = 4

\* the heading in [0, 360)
Turned(hdg) == CHOOSE r \in 0..359 : \E k \in (0 - 3)..3 : hdg = r + 360 * k

\* the lanes of the quarter a heading in [0, 360) is in
LanesOf(r) ==
  IF r >= 315 \/ r < 45 THEN DIRECTION_ALTITUDE_MAP.NORTH
  ELSE IF r < 135 THEN DIRECTION_ALTITUDE_MAP.EAST
  ELSE IF r < 225 THEN DIRECTION_ALTITUDE_MAP.SOUTH
  ELSE DIRECTION_ALTITUDE_MAP.WEST

\* C26: get_safe_altitude_for_direction returns one of the altitudes of the
\* quarter the heading mod 360 is in (north from 315 to 45, east to 135,
\* south to 225, west to 315), none of which is nearer to the current
\* altitude; heading 90 at 55 m gives 70 m and heading 0 at 55 m gives 50 m
C26_NearestLaneOfQuarter ==
  last.op = "get_safe_altitude_for_direction" =>
    /\ \E k \in 1..Len(LanesOf(Turned(last.heading))) :
         LanesOf(Turned(last.heading))[k] = last.result
    /\ \A k \in 1..Len(LanesOf(Turned(last.heading))) :
         Abs(last.result - last.current_altitude)
           <= Abs(LanesOf(Turned(last.heading))[k] - last.current_altitude)
    /\ (last.heading = 90 /\ last.current_altitude = 550) => last.result = 700
    /\ (last.heading = 0 /\ last.current_altitude = 550) => last.result = 500

\* a heading of more than a turn, to the east, takes the drone from the
\* northern lane it is in to an eastern one
C26_Witness_BeyondATurn ==
  /\ last.op = "get_safe_altitude_for_direction"
  /\ last.heading = 405
  /\ last.current_altitude = 500
  /\ last.result = 300

\* C30: in every trajectory in flight_plans, a waypoint and the one after it
\* are at most 2 * GRID_RESOLUTION apart over the ground and at most the
\* step between two of ALTITUDE_LAYERS apart in altitude, the last waypoint
\* of the leg to the pickup and the first of the leg to the delivery
\* included
C30_SuccessiveWaypointsAdjacent ==
  \A p \in 1..Len(flight_plans) :
    \A i \in 1..(Len(flight_plans[p].trajectory.waypoints) - 1) :
      /\ Meters(haversine_distance(
                  flight_plans[p].trajectory.waypoints[i].position.latitude,
                  flight_plans[p].trajectory.waypoints[i].position.longitude,
                  flight_plans[p].trajectory.waypoints[i + 1].position.latitude,
                  flight_plans[p].trajectory.waypoints[i + 1].position.longitude))
           <= 2 * GRID_RESOLUTION
      /\ Abs(flight_plans[p].trajectory.waypoints[i + 1].position.altitude
               - flight_plans[p].trajectory.waypoints[i].position.altitude)
           <= ALTITUDE_LAYERS[2] - ALTITUDE_LAYERS[1]

\* ------------------------------------------------------------------------
\* drone_simulator.py and main.py together: the fleet simulator of one
\* drone as the client of the server.  The listener is the one websocket
\* client.  clock counts the passes of simulation_loop, and the server
\* reads its time off it.
\* ------------------------------------------------------------------------
MaxPasses == 4

\* the requests the server is sent while the fleet runs: a mission the
\* drone holds its place on, and one whose delivery is outside the
\* operational area
FleetRequests ==
  { [pickup |-> Ground(1000, 0), delivery |-> Ground(0, 1000)],
    [pickup |-> Ground(0, 0), delivery |-> Ground(4000, 0)] }

\* the server as it starts and the simulator after initialize_fleet and
\* the listener's ws_connect
InitFleet ==
  /\ active_drones = <<Telemetry("drone_001", Home["drone_001"], 100, "idle")>>
  /\ active_missions = <<>>
  /\ flight_plans = <<>>
  /\ system_stats = [total_missions |-> 0, completed_missions |-> 0,
                     conflicts_detected |-> 0, conflicts_resolved |-> 0,
                     active_drones |-> 1]
  /\ connections = 1
  /\ clock = 0
  /\ handlers = [h \in Handlers |-> Idle]
  /\ Parked
  /\ last = [op |-> "none"]

\* the mission_created message on its way to the listener: what the last
\* request broadcast when it committed
MissionCreated ==
  /\ last.op = "create_delivery_request"
  /\ last.response.status_code = 200
  /\ last.response.status = "assigned"

\* POST /api/delivery/request, once the listener has read the message of
\* the request before
fleet_request(request) ==
  /\ ~MissionCreated
  /\ \E h \in Handlers : create_delivery_request(h, request)

\* one pass of simulation_loop
fleet_pass ==
  /\ clock < MaxPasses
  /\ simulation_loop

\* mission_listener on the message: the trajectory goes to the drone the
\* message names
fleet_listener ==
  /\ MissionCreated
  /\ drone' = IF last.response.drone_id = drone.drone_id
              THEN assign_trajectory(drone, last.response.trajectory)
              ELSE drone
  /\ last' = [op |-> "mission_listener", mission_id |-> last.response.mission_id]
  /\ UNCHANGED <<tables, connections, clock, handlers>>

NextFleet ==
  \/ \E request \in FleetRequests : fleet_request(request)
  \/ fleet_pass
  \/ fleet_listener

SpecFleet == InitFleet /\ [][NextFleet]_vars

\* C39: a drone that is not idle is not idle after any step; the record a
\* pass of simulation_loop stores for a drone that has been assigned a
\* trajectory is not idle; and no request is given to a drone that has been
\* assigned a trajectory
C39_NeverIdleAgain ==
  /\ [][drone.status # "idle" => drone'.status # "idle"]_vars
  /\ [][(drone.status # "idle" /\ clock' # clock) =>
          active_drones'[IndexOf(active_drones', "drone_id", drone.drone_id, 1)].status
            # "idle"]_vars
  /\ [][(drone.status # "idle" /\ Len(active_missions') > Len(active_missions)) =>
          active_missions'[Len(active_missions')].drone_id # drone.drone_id]_vars

\* the first two parts on their own: the drone's status and the records of
\* its passes
FleetStatusAndRecords ==
  /\ [][drone.status # "idle" => drone'.status # "idle"]_vars
  /\ [][(drone.status # "idle" /\ clock' # clock) =>
          active_drones'[IndexOf(active_drones', "drone_id", drone.drone_id, 1)].status
            # "idle"]_vars

\* no request of FleetRequests waits on a broadcast, and every trajectory
\* the drone is given is one the fixed point is exact for
FleetHandlersRunThrough == Suspended = {}
FleetTrajectoriesExact == drone.trajectory = None \/ Exact(drone.trajectory)

=============================================================================
